---- MODULE Spec2Model ----
(***************************************************************************)
(* GENUS: the client-side aggregation, caching and suggestion logic of the *)
(* taxonomy page (pages/TaxonomyChart, src/unnamed/part_003), the species  *)
(* search page (pages/AnimalSearch, src/unnamed/part_005) and the search   *)
(* widget (src/src/components/AnimalSearch.tsx).                           *)
(*                                                                         *)
(* A JavaScript string is modelled as the sequence of its characters, so   *)
(* that trim, toLowerCase, startsWith and includes are computed and not    *)
(* assumed.                                                                *)
(***************************************************************************)
EXTENDS Integers, Sequences, FiniteSets, TLC

VARIABLES
  route,              \* which page component is mounted
  chart,              \* autocomplete state of TaxonomyChart
  page,               \* autocomplete state of the species search page
  widget,             \* state of the search widget component
  now,                \* Date.now()
  rankCache,          \* Map key -> RankFetchResult
  rankLastFetchTime,  \* Map key -> time of the last fetch attempt
  fetches,            \* aggregateRankData calls awaiting fetchWiki
  rankLoading,        \* rankLoading[key], read as !!rankLoading[key]
  openRanks,          \* openRanks[key], read as !!openRanks[key]
  nextId,             \* identity of the next RankFetchResult object
  netCalls,           \* per key, requests sent to the encyclopedia provider
  lastSettled,        \* the promise of get or refresh settled by the last step
  preRefresh,         \* requests in flight that a refresh of their key found
  searchQuery,        \* committed search term of the mounted page
  loading,            \* loading flag of the mounted page
  taxonomyData,       \* chart shown by the taxonomy page
  animalData,         \* summary shown by the species search page
  tasks,              \* generateTaxonomy / searchAnimal calls awaiting a request
  nextTask,           \* number of the next call
  toast,              \* toast shown by the last step
  sent,               \* providers the last step sent a request to
  lastEntry,          \* entry path taken by the last step, with its query
  lastDone,           \* generateTaxonomy call finished by the last step
  fasta,              \* FASTA text shown by the species search page, or null
  fastaLoading,       \* loading flag of the FASTA panel
  fastaError,         \* error shown by the FASTA panel, or null
  fastaCache,         \* Map query -> FASTA text (session cache of the page)
  fastaCall,          \* the fetchFasta call whose signal is not aborted
  mountedCards,       \* Red List cards that are mounted, by scientific name
  cardWiki,           \* wiki state of each mounted card, or null
  WIKI_CACHE,         \* Map key -> WikiSummary of the Red List page module
  summaryCalls,       \* fetchWikiSummary calls awaiting their request
  nextSummary,        \* number of the next fetchWikiSummary request
  lastSummary,        \* fetchWikiSummary call resolved by the last step
  newsletterEmail,    \* email typed into the newsletter form of Layout
  newsletterStatus,   \* 'idle' | 'sending' | 'sent' | 'error'
  newsTimers,         \* setTimeout timers of submitNewsletter not yet fired
  nextTimer,          \* number of the next timer
  lastSubmit,         \* what the last step's submitNewsletter call did
  queriedName,        \* scientificName handed to generateTaxonomyHierarchy
  speciesJson,        \* classification record of the species request
  hierarchy           \* hierarchy built from speciesJson

suggestVars == <<route, chart, page, widget>>

cacheVars ==
  <<now, rankCache, rankLastFetchTime, fetches, rankLoading, openRanks, nextId,
    netCalls, lastSettled, preRefresh>>

searchVars ==
  <<searchQuery, loading, taxonomyData, animalData, tasks, nextTask, toast, sent,
    lastEntry, lastDone>>

fastaVars == <<fasta, fastaLoading, fastaError, fastaCache, fastaCall>>

hierarchyVars == <<queriedName, speciesJson, hierarchy>>

redListVars ==
  <<mountedCards, cardWiki, WIKI_CACHE, summaryCalls, nextSummary, lastSummary>>

newsletterVars ==
  <<newsletterEmail, newsletterStatus, newsTimers, nextTimer, lastSubmit>>

\* state of the rest of the site
siteVars == <<redListVars, newsletterVars>>

vars == <<suggestVars, cacheVars, searchVars, fastaVars, hierarchyVars, siteVars>>

(***************************************************************************)
(* Bounds of the model.                                                    *)
(***************************************************************************)
\* longest text typed into a search input
MaxQueryLen == 2

\* characters the user types: letters of both cases and the blank
TypedChars == {"p", "P", "a", "c", " "}

----------------------------------------------------------------------------
(***************************************************************************)
(* JavaScript string helpers.                                              *)
(***************************************************************************)
UpperChars ==
  <<"A","B","C","D","E","F","G","H","I","J","K","L","M",
    "N","O","P","Q","R","S","T","U","V","W","X","Y","Z">>

LowerChars ==
  <<"a","b","c","d","e","f","g","h","i","j","k","l","m",
    "n","o","p","q","r","s","t","u","v","w","x","y","z">>

Letters == 1..Len(UpperChars)

\* the lower-case letter of every upper-case letter
LowerOfUpper ==
  [u \in {UpperChars[i] : i \in Letters} |->
     LowerChars[CHOOSE i \in Letters : UpperChars[i] = u]]

LowerChar(c) == IF c \in DOMAIN LowerOfUpper THEN LowerOfUpper[c] ELSE c

\* String.prototype.toLowerCase
toLowerCase(s) == [i \in 1..Len(s) |-> LowerChar(s[i])]

IsSpace(c) == c = " "

SetMin(S) == CHOOSE x \in S : \A y \in S : x <= y

SetMax(S) == CHOOSE x \in S : \A y \in S : x >= y

\* String.prototype.trim
trim(s) ==
  LET solid == {i \in 1..Len(s) : ~IsSpace(s[i])}
  IN  IF solid = {} THEN <<>> ELSE SubSeq(s, SetMin(solid), SetMax(solid))

\* String.prototype.startsWith
startsWith(s, q) == Len(q) <= Len(s) /\ SubSeq(s, 1, Len(q)) = q

\* String.prototype.includes
includes(s, q) ==
  \E i \in 0..(Len(s) - Len(q)) : SubSeq(s, i + 1, i + Len(q)) = q

\* Array.prototype.slice(0, n)
slice(xs, n) == SubSeq(xs, 1, IF Len(xs) < n THEN Len(xs) ELSE n)

\* Array.prototype.indexOf, 0 when absent (positions are 1-based here)
IndexOf(xs, x) ==
  IF \E i \in 1..Len(xs) : xs[i] = x
    THEN SetMin({i \in 1..Len(xs) : xs[i] = x})
    ELSE 0

\* every text of at most n typed characters
RECURSIVE TextsUpTo(_)
TextsUpTo(n) ==
  IF n = 0 THEN {<<>>}
  ELSE LET shorter == TextsUpTo(n - 1)
       IN  shorter \cup {Append(t, c) : t \in shorter, c \in TypedChars}

Queries == TextsUpTo(MaxQueryLen)

\* what one keystroke makes of the text in an input: a character more or less
Edits(text) ==
  {Append(text, c) : c \in {d \in TypedChars : Len(text) < MaxQueryLen}}
    \cup {SubSeq(text, 1, Len(text) - 1) : k \in {1} \cap (1..Len(text))}

----------------------------------------------------------------------------
(***************************************************************************)
(* The static name lists.                                                  *)
(***************************************************************************)
(* scientific names of the dropdown entries *)
COMMON_SPECIES ==
  <<(* Panthera leo *) <<"P","a","n","t","h","e","r","a"," ","l","e","o">>,
     (* Elephas maximus *) <<"E","l","e","p","h","a","s"," ","m","a","x","i","m","u","s">>,
     (* Ursus arctos *) <<"U","r","s","u","s"," ","a","r","c","t","o","s">>,
     (* Canis lupus *) <<"C","a","n","i","s"," ","l","u","p","u","s">>,
     (* Felis catus *) <<"F","e","l","i","s"," ","c","a","t","u","s">>,
     (* Equus caballus *) <<"E","q","u","u","s"," ","c","a","b","a","l","l","u","s">>,
     (* Bos taurus *) <<"B","o","s"," ","t","a","u","r","u","s">>,
     (* Sus scrofa *) <<"S","u","s"," ","s","c","r","o","f","a">>,
     (* Vulpes vulpes *) <<"V","u","l","p","e","s"," ","v","u","l","p","e","s">>,
     (* Homo sapiens *) <<"H","o","m","o"," ","s","a","p","i","e","n","s">>>>

(* names appended to the dropdown names *)
EXTRA_SCIENTIFIC_NAMES ==
  <<(* Panthera tigris *) <<"P","a","n","t","h","e","r","a"," ","t","i","g","r","i","s">>,
     (* Ailuropoda melanoleuca *) <<"A","i","l","u","r","o","p","o","d","a"," ","m","e","l","a","n","o","l","e","u","c","a">>,
     (* Giraffa camelopardalis *) <<"G","i","r","a","f","f","a"," ","c","a","m","e","l","o","p","a","r","d","a","l","i","s">>,
     (* Hippopotamus amphibius *) <<"H","i","p","p","o","p","o","t","a","m","u","s"," ","a","m","p","h","i","b","i","u","s">>,
     (* Crocodylus niloticus *) <<"C","r","o","c","o","d","y","l","u","s"," ","n","i","l","o","t","i","c","u","s">>,
     (* Struthio camelus *) <<"S","t","r","u","t","h","i","o"," ","c","a","m","e","l","u","s">>,
     (* Spheniscus demersus *) <<"S","p","h","e","n","i","s","c","u","s"," ","d","e","m","e","r","s","u","s">>,
     (* Gorilla gorilla *) <<"G","o","r","i","l","l","a"," ","g","o","r","i","l","l","a">>,
     (* Pan troglodytes *) <<"P","a","n"," ","t","r","o","g","l","o","d","y","t","e","s">>,
     (* Pongo pygmaeus *) <<"P","o","n","g","o"," ","p","y","g","m","a","e","u","s">>>>

(* suggestion list of the search widget *)
allScientificNames ==
  <<(* Panthera leo *) <<"P","a","n","t","h","e","r","a"," ","l","e","o">>,
     (* Elephas maximus *) <<"E","l","e","p","h","a","s"," ","m","a","x","i","m","u","s">>,
     (* Ursus arctos *) <<"U","r","s","u","s"," ","a","r","c","t","o","s">>,
     (* Canis lupus *) <<"C","a","n","i","s"," ","l","u","p","u","s">>,
     (* Felis catus *) <<"F","e","l","i","s"," ","c","a","t","u","s">>,
     (* Equus caballus *) <<"E","q","u","u","s"," ","c","a","b","a","l","l","u","s">>,
     (* Bos taurus *) <<"B","o","s"," ","t","a","u","r","u","s">>,
     (* Sus scrofa *) <<"S","u","s"," ","s","c","r","o","f","a">>,
     (* Vulpes vulpes *) <<"V","u","l","p","e","s"," ","v","u","l","p","e","s">>,
     (* Homo sapiens *) <<"H","o","m","o"," ","s","a","p","i","e","n","s">>,
     (* Panthera tigris *) <<"P","a","n","t","h","e","r","a"," ","t","i","g","r","i","s">>,
     (* Ailuropoda melanoleuca *) <<"A","i","l","u","r","o","p","o","d","a"," ","m","e","l","a","n","o","l","e","u","c","a">>,
     (* Giraffa camelopardalis *) <<"G","i","r","a","f","f","a"," ","c","a","m","e","l","o","p","a","r","d","a","l","i","s">>,
     (* Hippopotamus amphibius *) <<"H","i","p","p","o","p","o","t","a","m","u","s"," ","a","m","p","h","i","b","i","u","s">>,
     (* Crocodylus niloticus *) <<"C","r","o","c","o","d","y","l","u","s"," ","n","i","l","o","t","i","c","u","s">>,
     (* Struthio camelus *) <<"S","t","r","u","t","h","i","o"," ","c","a","m","e","l","u","s">>,
     (* Spheniscus demersus *) <<"S","p","h","e","n","i","s","c","u","s"," ","d","e","m","e","r","s","u","s">>,
     (* Gorilla gorilla *) <<"G","o","r","i","l","l","a"," ","g","o","r","i","l","l","a">>,
     (* Pan troglodytes *) <<"P","a","n"," ","t","r","o","g","l","o","d","y","t","e","s">>,
     (* Pongo pygmaeus *) <<"P","o","n","g","o"," ","p","y","g","m","a","e","u","s">>,
     (* Acinonyx jubatus *) <<"A","c","i","n","o","n","y","x"," ","j","u","b","a","t","u","s">>,
     (* Loxodonta africana *) <<"L","o","x","o","d","o","n","t","a"," ","a","f","r","i","c","a","n","a">>,
     (* Rangifer tarandus *) <<"R","a","n","g","i","f","e","r"," ","t","a","r","a","n","d","u","s">>,
     (* Odobenus rosmarus *) <<"O","d","o","b","e","n","u","s"," ","r","o","s","m","a","r","u","s">>,
     (* Delphinus delphis *) <<"D","e","l","p","h","i","n","u","s"," ","d","e","l","p","h","i","s">>,
     (* Balaenoptera musculus *) <<"B","a","l","a","e","n","o","p","t","e","r","a"," ","m","u","s","c","u","l","u","s">>,
     (* Orcinus orca *) <<"O","r","c","i","n","u","s"," ","o","r","c","a">>,
     (* Physeter macrocephalus *) <<"P","h","y","s","e","t","e","r"," ","m","a","c","r","o","c","e","p","h","a","l","u","s">>,
     (* Eschrichtius robustus *) <<"E","s","c","h","r","i","c","h","t","i","u","s"," ","r","o","b","u","s","t","u","s">>,
     (* Tursiops truncatus *) <<"T","u","r","s","i","o","p","s"," ","t","r","u","n","c","a","t","u","s">>,
     (* Phascolarctos cinereus *) <<"P","h","a","s","c","o","l","a","r","c","t","o","s"," ","c","i","n","e","r","e","u","s">>,
     (* Macropus rufus *) <<"M","a","c","r","o","p","u","s"," ","r","u","f","u","s">>,
     (* Sarcophilus harrisii *) <<"S","a","r","c","o","p","h","i","l","u","s"," ","h","a","r","r","i","s","i","i">>,
     (* Didelphis virginiana *) <<"D","i","d","e","l","p","h","i","s"," ","v","i","r","g","i","n","i","a","n","a">>,
     (* Cervus elaphus *) <<"C","e","r","v","u","s"," ","e","l","a","p","h","u","s">>,
     (* Alces alces *) <<"A","l","c","e","s"," ","a","l","c","e","s">>,
     (* Capra aegagrus hircus *) <<"C","a","p","r","a"," ","a","e","g","a","g","r","u","s"," ","h","i","r","c","u","s">>,
     (* Ovis aries *) <<"O","v","i","s"," ","a","r","i","e","s">>,
     (* Camelus dromedarius *) <<"C","a","m","e","l","u","s"," ","d","r","o","m","e","d","a","r","i","u","s">>,
     (* Camelus bactrianus *) <<"C","a","m","e","l","u","s"," ","b","a","c","t","r","i","a","n","u","s">>,
     (* Tapirus terrestris *) <<"T","a","p","i","r","u","s"," ","t","e","r","r","e","s","t","r","i","s">>,
     (* Manis javanica *) <<"M","a","n","i","s"," ","j","a","v","a","n","i","c","a">>,
     (* Erinaceus europaeus *) <<"E","r","i","n","a","c","e","u","s"," ","e","u","r","o","p","a","e","u","s">>,
     (* Talpa europaea *) <<"T","a","l","p","a"," ","e","u","r","o","p","a","e","a">>,
     (* Lutra lutra *) <<"L","u","t","r","a"," ","l","u","t","r","a">>,
     (* Mustela putorius furo *) <<"M","u","s","t","e","l","a"," ","p","u","t","o","r","i","u","s"," ","f","u","r","o">>,
     (* Enhydra lutris *) <<"E","n","h","y","d","r","a"," ","l","u","t","r","i","s">>,
     (* Neofelis nebulosa *) <<"N","e","o","f","e","l","i","s"," ","n","e","b","u","l","o","s","a">>,
     (* Prionailurus bengalensis *) <<"P","r","i","o","n","a","i","l","u","r","u","s"," ","b","e","n","g","a","l","e","n","s","i","s">>,
     (* Caracal caracal *) <<"C","a","r","a","c","a","l"," ","c","a","r","a","c","a","l">>,
     (* Lynx lynx *) <<"L","y","n","x"," ","l","y","n","x">>,
     (* Herpestes ichneumon *) <<"H","e","r","p","e","s","t","e","s"," ","i","c","h","n","e","u","m","o","n">>,
     (* Meles meles *) <<"M","e","l","e","s"," ","m","e","l","e","s">>,
     (* Taxidea taxus *) <<"T","a","x","i","d","e","a"," ","t","a","x","u","s">>,
     (* Procyon lotor *) <<"P","r","o","c","y","o","n"," ","l","o","t","o","r">>,
     (* Nasua nasua *) <<"N","a","s","u","a"," ","n","a","s","u","a">>,
     (* Alligator mississippiensis *) <<"A","l","l","i","g","a","t","o","r"," ","m","i","s","s","i","s","s","i","p","p","i","e","n","s","i","s">>,
     (* Gavialis gangeticus *) <<"G","a","v","i","a","l","i","s"," ","g","a","n","g","e","t","i","c","u","s">>,
     (* Chelonia mydas *) <<"C","h","e","l","o","n","i","a"," ","m","y","d","a","s">>,
     (* Dermochelys coriacea *) <<"D","e","r","m","o","c","h","e","l","y","s"," ","c","o","r","i","a","c","e","a">>,
     (* Testudo graeca *) <<"T","e","s","t","u","d","o"," ","g","r","a","e","c","a">>,
     (* Iguana iguana *) <<"I","g","u","a","n","a"," ","i","g","u","a","n","a">>,
     (* Varanus komodoensis *) <<"V","a","r","a","n","u","s"," ","k","o","m","o","d","o","e","n","s","i","s">>,
     (* Chamaeleo calyptratus *) <<"C","h","a","m","a","e","l","e","o"," ","c","a","l","y","p","t","r","a","t","u","s">>,
     (* Python bivittatus *) <<"P","y","t","h","o","n"," ","b","i","v","i","t","t","a","t","u","s">>,
     (* Eunectes murinus *) <<"E","u","n","e","c","t","e","s"," ","m","u","r","i","n","u","s">>,
     (* Crotalus adamanteus *) <<"C","r","o","t","a","l","u","s"," ","a","d","a","m","a","n","t","e","u","s">>,
     (* Naja naja *) <<"N","a","j","a"," ","n","a","j","a">>,
     (* Dendrobates tinctorius *) <<"D","e","n","d","r","o","b","a","t","e","s"," ","t","i","n","c","t","o","r","i","u","s">>,
     (* Ambystoma mexicanum *) <<"A","m","b","y","s","t","o","m","a"," ","m","e","x","i","c","a","n","u","m">>,
     (* Bufo bufo *) <<"B","u","f","o"," ","b","u","f","o">>,
     (* Rana temporaria *) <<"R","a","n","a"," ","t","e","m","p","o","r","a","r","i","a">>,
     (* Aquila chrysaetos *) <<"A","q","u","i","l","a"," ","c","h","r","y","s","a","e","t","o","s">>,
     (* Haliaeetus leucocephalus *) <<"H","a","l","i","a","e","e","t","u","s"," ","l","e","u","c","o","c","e","p","h","a","l","u","s">>,
     (* Buteo buteo *) <<"B","u","t","e","o"," ","b","u","t","e","o">>,
     (* Tyto alba *) <<"T","y","t","o"," ","a","l","b","a">>,
     (* Strix aluco *) <<"S","t","r","i","x"," ","a","l","u","c","o">>,
     (* Corvus corax *) <<"C","o","r","v","u","s"," ","c","o","r","a","x">>,
     (* Pica pica *) <<"P","i","c","a"," ","p","i","c","a">>,
     (* Cyanocitta cristata *) <<"C","y","a","n","o","c","i","t","t","a"," ","c","r","i","s","t","a","t","a">>,
     (* Psittacus erithacus *) <<"P","s","i","t","t","a","c","u","s"," ","e","r","i","t","h","a","c","u","s">>,
     (* Ara macao *) <<"A","r","a"," ","m","a","c","a","o">>,
     (* Cacatua galerita *) <<"C","a","c","a","t","u","a"," ","g","a","l","e","r","i","t","a">>,
     (* Melopsittacus undulatus *) <<"M","e","l","o","p","s","i","t","t","a","c","u","s"," ","u","n","d","u","l","a","t","u","s">>,
     (* Columba livia *) <<"C","o","l","u","m","b","a"," ","l","i","v","i","a">>,
     (* Zenaida macroura *) <<"Z","e","n","a","i","d","a"," ","m","a","c","r","o","u","r","a">>,
     (* Apus apus *) <<"A","p","u","s"," ","a","p","u","s">>,
     (* Trochilidae trochilus *) <<"T","r","o","c","h","i","l","i","d","a","e"," ","t","r","o","c","h","i","l","u","s">>,
     (* Phoenicopterus roseus *) <<"P","h","o","e","n","i","c","o","p","t","e","r","u","s"," ","r","o","s","e","u","s">>,
     (* Anas platyrhynchos *) <<"A","n","a","s"," ","p","l","a","t","y","r","h","y","n","c","h","o","s">>,
     (* Cygnus olor *) <<"C","y","g","n","u","s"," ","o","l","o","r">>,
     (* Branta canadensis *) <<"B","r","a","n","t","a"," ","c","a","n","a","d","e","n","s","i","s">>,
     (* Aptenodytes forsteri *) <<"A","p","t","e","n","o","d","y","t","e","s"," ","f","o","r","s","t","e","r","i">>,
     (* Eudyptula minor *) <<"E","u","d","y","p","t","u","l","a"," ","m","i","n","o","r">>,
     (* Diomedea exulans *) <<"D","i","o","m","e","d","e","a"," ","e","x","u","l","a","n","s">>,
     (* Sterna paradisaea *) <<"S","t","e","r","n","a"," ","p","a","r","a","d","i","s","a","e","a">>,
     (* Falco peregrinus *) <<"F","a","l","c","o"," ","p","e","r","e","g","r","i","n","u","s">>,
     (* Falco tinnunculus *) <<"F","a","l","c","o"," ","t","i","n","n","u","n","c","u","l","u","s">>,
     (* Accipiter gentilis *) <<"A","c","c","i","p","i","t","e","r"," ","g","e","n","t","i","l","i","s">>,
     (* Milvus milvus *) <<"M","i","l","v","u","s"," ","m","i","l","v","u","s">>,
     (* Carcharodon carcharias *) <<"C","a","r","c","h","a","r","o","d","o","n"," ","c","a","r","c","h","a","r","i","a","s">>,
     (* Galeocerdo cuvier *) <<"G","a","l","e","o","c","e","r","d","o"," ","c","u","v","i","e","r">>,
     (* Sphyrna mokarran *) <<"S","p","h","y","r","n","a"," ","m","o","k","a","r","r","a","n">>,
     (* Rhincodon typus *) <<"R","h","i","n","c","o","d","o","n"," ","t","y","p","u","s">>,
     (* Selachimorpha pristis *) <<"S","e","l","a","c","h","i","m","o","r","p","h","a"," ","p","r","i","s","t","i","s">>,
     (* Mobula birostris *) <<"M","o","b","u","l","a"," ","b","i","r","o","s","t","r","i","s">>,
     (* Dasyatis pastinaca *) <<"D","a","s","y","a","t","i","s"," ","p","a","s","t","i","n","a","c","a">>,
     (* Pristis pristis *) <<"P","r","i","s","t","i","s"," ","p","r","i","s","t","i","s">>,
     (* Hippocampus hippocampus *) <<"H","i","p","p","o","c","a","m","p","u","s"," ","h","i","p","p","o","c","a","m","p","u","s">>,
     (* Syngnathus acus *) <<"S","y","n","g","n","a","t","h","u","s"," ","a","c","u","s">>,
     (* Salmo salar *) <<"S","a","l","m","o"," ","s","a","l","a","r">>,
     (* Oncorhynchus mykiss *) <<"O","n","c","o","r","h","y","n","c","h","u","s"," ","m","y","k","i","s","s">>,
     (* Anguilla anguilla *) <<"A","n","g","u","i","l","l","a"," ","a","n","g","u","i","l","l","a">>,
     (* Clupea harengus *) <<"C","l","u","p","e","a"," ","h","a","r","e","n","g","u","s">>,
     (* Thunnus thynnus *) <<"T","h","u","n","n","u","s"," ","t","h","y","n","n","u","s">>,
     (* Xiphias gladius *) <<"X","i","p","h","i","a","s"," ","g","l","a","d","i","u","s">>,
     (* Ictalurus punctatus *) <<"I","c","t","a","l","u","r","u","s"," ","p","u","n","c","t","a","t","u","s">>,
     (* Silurus glanis *) <<"S","i","l","u","r","u","s"," ","g","l","a","n","i","s">>,
     (* Pangasianodon hypophthalmus *) <<"P","a","n","g","a","s","i","a","n","o","d","o","n"," ","h","y","p","o","p","h","t","h","a","l","m","u","s">>,
     (* Electrophorus electricus *) <<"E","l","e","c","t","r","o","p","h","o","r","u","s"," ","e","l","e","c","t","r","i","c","u","s">>>>

\* ALL_SCIENTIFIC_NAMES of TaxonomyChart; the search page declares the same list
ALL_SCIENTIFIC_NAMES == COMMON_SPECIES \o EXTRA_SCIENTIFIC_NAMES

\* most suggestions shown
SUGGESTION_LIMIT == 10

\* timers of the newsletter form after which no further submission is followed
MaxTimers == 6

\* longest step of the clock of the newsletter timers, in ms
NewsTickMs == 100

----------------------------------------------------------------------------
(***************************************************************************)
(* suggest: the three autocomplete effects.                                *)
(***************************************************************************)
\* TaxonomyChart: startsWith matches first, then the other substring matches
ChartSuggest(debouncedInput) ==
  LET q == trim(debouncedInput)
      lowerQ == toLowerCase(q)
      starts == SelectSeq(ALL_SCIENTIFIC_NAMES,
                          LAMBDA n : startsWith(toLowerCase(n), lowerQ))
      incl == SelectSeq(ALL_SCIENTIFIC_NAMES,
                        LAMBDA n : ~startsWith(toLowerCase(n), lowerQ)
                                   /\ includes(toLowerCase(n), lowerQ))
  IN  IF Len(q) = 0 THEN <<>> ELSE slice(starts \o incl, SUGGESTION_LIMIT)

\* species search page: substring matches in list order
PageSuggest(debouncedInput) ==
  LET q == trim(debouncedInput)
      filtered == SelectSeq(ALL_SCIENTIFIC_NAMES,
                            LAMBDA n : includes(toLowerCase(n), toLowerCase(q)))
  IN  IF Len(q) = 0 THEN <<>> ELSE slice(filtered, SUGGESTION_LIMIT)

\* search widget: substring matches in list order, the term is not trimmed
WidgetSuggest(searchTerm) ==
  LET filtered == SelectSeq(allScientificNames,
                            LAMBDA n : includes(toLowerCase(n), toLowerCase(searchTerm)))
  IN  IF searchTerm # <<>> THEN slice(filtered, SUGGESTION_LIMIT) ELSE <<>>

----------------------------------------------------------------------------
(***************************************************************************)
(* The hierarchy of generateTaxonomyHierarchy.  A field of the record that *)
(* is absent or '' is falsy and is written <<>>.                           *)
(***************************************************************************)
Ranks == <<"Kingdom", "Phylum", "Class", "Order", "Family", "Genus", "Species">>

\* field of the classification record read for each rank
Fields == <<"kingdom", "phylum", "class", "order", "family", "genus", "species">>

\* a record with every field populated
FullRecord ==
  [kingdom |-> <<"A", "n", "i", "m", "a", "l", "i", "a">>,
   phylum |-> <<"C", "h", "o", "r", "d", "a", "t", "a">>,
   class |-> <<"M", "a", "m", "m", "a", "l", "i", "a">>,
   order |-> <<"P", "r", "i", "m", "a", "t", "e", "s">>,
   family |-> <<"H", "o", "m", "i", "n", "i", "d", "a", "e">>,
   genus |-> <<"H", "o", "m", "o">>,
   species |-> <<"H", "o", "m", "o", " ", "s", "a", "p", "i", "e", "n", "s">>]

\* a body without classification fields
EmptyRecord == [f \in DOMAIN FullRecord |-> <<>>]

\* the records in which each field is populated or not
SpeciesRecords ==
  {[f \in DOMAIN FullRecord |-> IF f \in S THEN FullRecord[f] ELSE <<>>] :
     S \in SUBSET DOMAIN FullRecord}

\* names handed to generateTaxonomyHierarchy
ScientificNames == {<<"p">>, <<"H", "o", "m", "o", " ", "s", "a", "p", "i", "e", "n", "s">>}

\* a || b of two strings
Or(a, b) == IF a # <<>> THEN a ELSE b

\* the seven levels before the filter
Levels(json, name) ==
  [i \in 1..Len(Ranks) |->
     [rank |-> Ranks[i],
      name |-> IF Ranks[i] = "Species" THEN Or(json[Fields[i]], name)
               ELSE Or(json[Fields[i]], <<>>)]]

\* a hierarchy that keeps the levels without a name
HierarchyUnfiltered(json, name) == Levels(json, name)

\* the hierarchy: the levels whose name is truthy
Hierarchy(json, name) == SelectSeq(Levels(json, name), LAMBDA level : level.name # <<>>)

(***************************************************************************)
(* Red List page: every card fetches the summary of its species when it    *)
(* is mounted, through fetchWikiSummary and the module-level WIKI_CACHE.   *)
(***************************************************************************)
\* requests the page sends
MaxSummaries == 3

\* cards of the page
MaxCards == 2

SPECIES_LIST ==
  <<(* Pan troglodytes *) <<"P","a","n"," ","t","r","o","g","l","o","d","y","t","e","s">>,
     (* Cuon alpinus *) <<"C","u","o","n"," ","a","l","p","i","n","u","s">>,
     (* Pongo pygmaeus *) <<"P","o","n","g","o"," ","p","y","g","m","a","e","u","s">>,
     (* Diceros bicornis *) <<"D","i","c","e","r","o","s"," ","b","i","c","o","r","n","i","s">>>>

Cards == {SPECIES_LIST[i] : i \in 1..MaxCards}

\* null, as a record so that it compares with the summaries
NoSummary == [null |-> TRUE]

\* answers of the summary endpoint: the article, 404 for a missing article,
\* another non-success status, a rejected request, an unparsable body
SummaryOutcomes == {"ok", "missing", "httpError", "networkError", "badJson"}

\* the WikiSummary object built from the response of request id
WikiSummary(id) == [request |-> id, extract |-> "extract"]

\* what fetchWikiSummary resolves with once its request has settled: the
\* summary, or null for a non-ok status and for whatever its catch catches
SummaryResult(id, outcome) ==
  IF outcome = "ok" THEN WikiSummary(id) ELSE NoSummary

NoSummaryDone == [outcome |-> "none", key |-> <<>>, result |-> NoSummary]

RedListIdle ==
  /\ mountedCards = {}
  /\ cardWiki = << >>
  /\ WIKI_CACHE = << >>
  /\ summaryCalls = {}
  /\ nextSummary = 1
  /\ lastSummary = NoSummaryDone

\* Layout after its first render: empty form, no timer
NewsletterIdle ==
  /\ newsletterEmail = ""
  /\ newsletterStatus = "idle"
  /\ newsTimers = {}
  /\ nextTimer = 1
  /\ lastSubmit = "none"

SiteIdle == RedListIdle /\ NewsletterIdle

HierarchyIdle ==
  /\ queriedName = <<>>
  /\ speciesJson = EmptyRecord
  /\ hierarchy = <<>>

\* generateTaxonomyHierarchy builds the hierarchy of the record it received
BuildHierarchy ==
  /\ hierarchy' = Hierarchy(speciesJson, queriedName)
  /\ UNCHANGED <<queriedName, speciesJson>>
  /\ UNCHANGED <<suggestVars, cacheVars, searchVars, fastaVars, siteVars>>

----------------------------------------------------------------------------
(***************************************************************************)
(* State of the search flows when no search is running.                    *)
(***************************************************************************)
\* null, as a record so that it compares with the data records
NoData == [null |-> TRUE]

NoCall == [path |-> "none", query |-> <<>>]

NoDone ==
  [taxonomy |-> "none", wiki |-> "none", wikiInvoked |-> FALSE,
   funFact |-> "none", reported |-> "none", match |-> "none",
   species |-> "none", error |-> "none"]

\* the first n entries of a list, as a set
FirstOf(xs, n) == {xs[i] : i \in {j \in 1..Len(xs) : j <= n}}

\* no fetchFasta call is pending
NoLookup == [q |-> <<>>, pc |-> "none"]

\* FASTA panel of a page just mounted: useState(null), useState(false),
\* useState(null), an empty session cache
FastaIdle ==
  /\ fasta = "null"
  /\ fastaLoading = FALSE
  /\ fastaError = "null"
  /\ fastaCache = << >>
  /\ fastaCall = NoLookup

SearchInit ==
  /\ FastaIdle
  /\ searchQuery = <<>>
  /\ loading = FALSE
  /\ taxonomyData = NoData
  /\ animalData = NoData
  /\ tasks = {}
  /\ nextTask = 1
  /\ toast = "none"
  /\ sent = {}
  /\ lastEntry = NoCall
  /\ lastDone = NoDone

\* a step of another handler: no toast, no request, no search call
SearchQuiet ==
  /\ toast' = "none"
  /\ sent' = {}
  /\ lastEntry' = NoCall
  /\ lastDone' = NoDone
  /\ UNCHANGED <<searchQuery, loading, taxonomyData, animalData, tasks, nextTask>>
  /\ UNCHANGED fastaVars
  /\ UNCHANGED hierarchyVars
  /\ UNCHANGED siteVars

----------------------------------------------------------------------------
(***************************************************************************)
(* The per-rank aggregation and cache engine of TaxonomyChart.             *)
(***************************************************************************)
\* total number of requests sent to the encyclopedia provider
MaxFetches == 2

\* value of Date.now() when the page is loaded
EpochStart == 100000

\* the clock advances in steps of TickMs until Horizon ms after the page load,
\* and beyond that only to the deadline of a pending request
TickMs == 500

Horizon == 1000

RANK_FETCH_THROTTLE_MS == 1000

\* timeoutMs given to fetchWithTimeout by fetchWiki
WIKI_TIMEOUT_MS == 6000

\* rank names shown in a hierarchy: the species level may carry the text the
\* user searched for (speciesJson.species || scientificName)
LevelNames == {<<"P">>, <<"p">>, <<" ", "p">>}

\* const key = levelName.toLowerCase()
RankKey(levelName) == toLowerCase(levelName)

Keys == {RankKey(n) : n \in LevelNames}

\* JavaScript Map: a function whose domain is the set of keys present
EmptyMap == [k \in {} |-> "null"]

MapHas(m, k) == k \in DOMAIN m

MapSet(m, k, v) == [x \in DOMAIN m \cup {k} |-> IF x = k THEN v ELSE m[x]]

MapDelete(m, k) == [x \in DOMAIN m \ {k} |-> m[x]]

\* what the provider does with one request
Outcomes == {"ok", "httpError", "networkError", "badJson", "timeout"}

\* fetchWiki: a WikiResult for an ok response with a JSON body, null for a
\* non-ok status and for everything its catch block catches; it never throws
fetchWiki(outcome) ==
  [threw |-> FALSE,
   value |-> IF outcome = "ok" THEN "WikiResult" ELSE "null"]

\* an aggregateRankData that fills the first result object again instead of
\* building a new one
RankFetchResultInPlace(id, outcome, time) ==
  [id |-> 1, itis |-> "null", gbif |-> "null", wiki |-> fetchWiki(outcome).value,
   combinedSummary |-> "undefined", fetchedAt |-> time, error |-> "null"]

\* the RankFetchResult aggregateRankData builds once fetchWiki has settled:
\* `result` of the try block, `fallback` of the catch block
RankFetchResult(id, outcome, time) ==
  LET wiki == fetchWiki(outcome)
  IN  IF ~wiki.threw
        THEN [id |-> id, itis |-> "null", gbif |-> "null", wiki |-> wiki.value,
              combinedSummary |-> "undefined", fetchedAt |-> time,
              error |-> "null"]
        ELSE [id |-> id, itis |-> "null", gbif |-> "null", wiki |-> "null",
              combinedSummary |-> "Failed to retrieve remote data",
              fetchedAt |-> time, error |-> "message"]

\* an aggregateRankData that lets the failure of its adapter escape
AggregateRejectsOnFailure(id, outcome, time) ==
  [status |-> IF outcome = "ok" THEN "resolved" ELSE "rejected",
   adapter |-> IF outcome = "ok" THEN "ok" ELSE "failed",
   value |-> RankFetchResult(id, outcome, time)]

\* how the promise of aggregateRankData settles once fetchWiki has settled
AggregateSettles(id, outcome, time) ==
  [status |-> "resolved", adapter |-> IF outcome = "ok" THEN "ok" ELSE "failed",
   value |-> RankFetchResult(id, outcome, time)]

NoEntry ==
  [id |-> 0, itis |-> "null", gbif |-> "null", wiki |-> "null",
   combinedSummary |-> "undefined", fetchedAt |-> 0, error |-> "null"]

\* how the promise of refreshRank settles: the result, or null from its catch
RefreshSettles(settled) ==
  IF settled.status = "resolved"
    THEN settled
    ELSE [status |-> "resolved", adapter |-> settled.adapter, value |-> NoEntry]

NoSettle == [status |-> "none", adapter |-> "none", value |-> NoEntry]

\* rankLastFetchTime.get(key) || 0
LastFetch(last, key) == IF MapHas(last, key) THEN last[key] ELSE 0

\* a throttle test that retries a lookup whose adapter failed
CacheFreshUnlessFailed(cache, last, key) ==
  /\ now - LastFetch(last, key) < RANK_FETCH_THROTTLE_MS
  /\ MapHas(cache, key)
  /\ cache[key].wiki # "null"

\* the throttle test of aggregateRankData on the maps it is called with
CacheFresh(cache, last, key) ==
  now - LastFetch(last, key) < RANK_FETCH_THROTTLE_MS /\ MapHas(cache, key)

CacheInit ==
  /\ preRefresh = {}
  /\ now = EpochStart
  /\ rankCache = EmptyMap
  /\ rankLastFetchTime = EmptyMap
  /\ fetches = {}
  /\ rankLoading = [k \in Keys |-> FALSE]
  /\ openRanks = [k \in Keys |-> FALSE]
  /\ nextId = 1
  /\ netCalls = [k \in Keys |-> 0]
  /\ lastSettled = NoSettle

\* aggregateRankData(levelName) up to its await, called by `by` with the maps
\* `cache` and `last` as the caller left them: a fresh entry is returned,
\* otherwise the attempt is timestamped and the request is sent
\* an aggregateRankData that abandons the requests in flight for other keys
\* when it starts a request
aggregateRankDataLatestOnly(levelName, by, cache, last) ==
  LET key == RankKey(levelName)
  IN  IF CacheFresh(cache, last, key)
        THEN /\ rankCache' = cache
             /\ rankLastFetchTime' = last
             /\ lastSettled' = [status |-> "resolved", adapter |-> "none",
                                value |-> cache[key]]
             /\ UNCHANGED <<fetches, nextId, netCalls>>
        ELSE /\ nextId <= MaxFetches
             /\ rankCache' = cache
             /\ rankLastFetchTime' = MapSet(last, key, now)
             /\ fetches' = {f \in fetches : f.key = key} \cup
                  {[id |-> nextId, key |-> key, by |-> by, startedAt |-> now]}
             /\ nextId' = nextId + 1
             /\ netCalls' = [netCalls EXCEPT ![key] = @ + 1]
             /\ lastSettled' = NoSettle

aggregateRankData(levelName, by, cache, last) ==
  LET key == RankKey(levelName)
  IN  IF CacheFresh(cache, last, key)
        THEN /\ rankCache' = cache
             /\ rankLastFetchTime' = last
             /\ lastSettled' = [status |-> "resolved", adapter |-> "none",
                                value |-> cache[key]]
             /\ UNCHANGED <<fetches, nextId, netCalls>>
        ELSE /\ nextId <= MaxFetches
             /\ rankCache' = cache
             /\ rankLastFetchTime' = MapSet(last, key, now)
             /\ fetches' = fetches \cup
                  {[id |-> nextId, key |-> key, by |-> by, startedAt |-> now]}
             /\ nextId' = nextId + 1
             /\ netCalls' = [netCalls EXCEPT ![key] = @ + 1]
             /\ lastSettled' = NoSettle

\* get: aggregateRankData called as the engine's interface
Get(levelName) ==
  /\ route = "taxonomy"
  /\ aggregateRankData(levelName, "get", rankCache, rankLastFetchTime)
  /\ UNCHANGED <<now, rankLoading, openRanks>>
  /\ UNCHANGED suggestVars
  /\ UNCHANGED preRefresh
  /\ SearchQuiet

\* onMouseEnter of a rank card: open the panel, fetch when nothing is cached
MouseEnter(levelName) ==
  LET key == RankKey(levelName)
  IN  /\ route = "taxonomy"
      /\ openRanks' = [openRanks EXCEPT ![key] = TRUE]
      /\ IF ~MapHas(rankCache, key)
           THEN /\ rankLoading' = [rankLoading EXCEPT ![key] = TRUE]
                /\ aggregateRankData(levelName, "hover", rankCache,
                                     rankLastFetchTime)
           ELSE /\ lastSettled' = NoSettle
                /\ UNCHANGED <<rankLoading, rankCache, rankLastFetchTime,
                               fetches, nextId, netCalls>>
      /\ UNCHANGED now
      /\ UNCHANGED suggestVars
      /\ UNCHANGED preRefresh
      /\ SearchQuiet

\* onMouseLeave of a rank card
MouseLeave(levelName) ==
  /\ route = "taxonomy"
  /\ openRanks[RankKey(levelName)]
  /\ openRanks' = [openRanks EXCEPT ![RankKey(levelName)] = FALSE]
  /\ lastSettled' = NoSettle
  /\ UNCHANGED <<now, rankCache, rankLastFetchTime, fetches, rankLoading, nextId,
                 netCalls>>
  /\ UNCHANGED suggestVars
  /\ UNCHANGED preRefresh
  /\ SearchQuiet

\* a refreshRank that forgets to drop the entry and the timestamp
refreshRankKeepsEntry(levelName) ==
  LET key == RankKey(levelName)
  IN  /\ route = "taxonomy"
      /\ rankLoading' = [rankLoading EXCEPT ![key] = TRUE]
      /\ aggregateRankData(levelName, "refresh", rankCache, rankLastFetchTime)
      /\ UNCHANGED <<now, openRanks>>
      /\ UNCHANGED suggestVars
      /\ preRefresh' = preRefresh \cup {f.id : f \in {g \in fetches : g.key = key}}
      /\ SearchQuiet

\* refreshRank up to its await: drop the entry and the timestamp, then fetch
refreshRank(levelName) ==
  LET key == RankKey(levelName)
  IN  /\ route = "taxonomy"
      /\ rankLoading' = [rankLoading EXCEPT ![key] = TRUE]
      /\ aggregateRankData(levelName, "refresh", MapDelete(rankCache, key),
                           MapDelete(rankLastFetchTime, key))
      /\ UNCHANGED <<now, openRanks>>
      /\ UNCHANGED suggestVars
      /\ preRefresh' = preRefresh \cup {f.id : f \in {g \in fetches : g.key = key}}
      /\ SearchQuiet

\* point in time at which the timer of fetchWithTimeout aborts request f
Deadline(f) == f.startedAt + WIKI_TIMEOUT_MS

\* fetchWiki of call f settles with `outcome`; aggregateRankData stores the
\* result in the module-level cache and returns it, and the caller's
\* continuation runs; its state setters act on a mounted component only
Complete(f, outcome) ==
  LET settled == AggregateSettles(f.id, outcome, now)
  IN  /\ f \in fetches
      /\ (outcome = "timeout") => now = Deadline(f)
      /\ lastSettled' = IF f.by = "refresh" THEN RefreshSettles(settled)
                         ELSE settled
      /\ rankCache' = IF settled.status = "resolved"
                        THEN MapSet(rankCache, f.key, settled.value)
                        ELSE rankCache
      /\ fetches' = fetches \ {f}
      /\ rankLoading' = IF route = "taxonomy" /\ f.by \in {"hover", "refresh"}
                          THEN [rankLoading EXCEPT ![f.key] = FALSE]
                          ELSE rankLoading
      /\ openRanks' = IF /\ route = "taxonomy"
                         /\ f.by = "refresh"
                         /\ settled.status = "resolved"
                        THEN [openRanks EXCEPT ![f.key] = TRUE]
                        ELSE openRanks
      /\ UNCHANGED <<now, rankLastFetchTime, nextId, netCalls>>
      /\ UNCHANGED suggestVars
      /\ preRefresh' = preRefresh \ {f.id}
      /\ SearchQuiet

\* time passes; no timer of a pending request is skipped
Tick ==
  LET due == {Deadline(f) : f \in fetches}
      step == IF now + TickMs <= EpochStart + Horizon
                THEN {now + TickMs} ELSE {}
      next == {t \in step \cup due : t > now /\ \A d \in due : t <= d}
  IN  /\ \E t \in next : now' = t
      /\ lastSettled' = NoSettle
      /\ UNCHANGED <<rankCache, rankLastFetchTime, fetches, rankLoading,
                     openRanks, nextId, netCalls>>
      /\ UNCHANGED suggestVars
      /\ UNCHANGED preRefresh
      /\ SearchQuiet

CacheNext ==
  \/ \E n \in LevelNames : Get(n)
  \/ \E n \in LevelNames : MouseEnter(n)
  \/ \E n \in LevelNames : MouseLeave(n)
  \/ \E n \in LevelNames : refreshRank(n)
  \/ \E f \in fetches : \E o \in Outcomes : Complete(f, o)
  \/ Tick

----------------------------------------------------------------------------
(***************************************************************************)
(* Autocomplete state of the three search inputs.  One page component is   *)
(* mounted at a time (App routes); the others keep their unmounted state.  *)
(***************************************************************************)
Routes == {"taxonomy", "search", "widget"}

AutoInit ==
  [inputValue |-> <<>>, debouncedInput |-> <<>>, suggestions |-> <<>>,
   showSuggestions |-> FALSE, activeSuggestionIndex |-> -1]

WidgetInit ==
  [searchTerm |-> <<>>, typed |-> <<>>, timer |-> FALSE, suggestions |-> <<>>,
   showSuggestions |-> FALSE, suggestionIndex |-> -1]

SuggestInit ==
  /\ route \in Routes
  /\ chart = AutoInit
  /\ page = AutoInit
  /\ widget = WidgetInit

\* TaxonomyChart input onChange
ChartInput(v) ==
  /\ route = "taxonomy"
  /\ v \in Edits(chart.inputValue)
  /\ chart' = IF Len(trim(v)) > 0
                THEN [chart EXCEPT !.inputValue = v, !.showSuggestions = TRUE]
                ELSE [chart EXCEPT !.inputValue = v, !.showSuggestions = FALSE,
                                   !.suggestions = <<>>,
                                   !.activeSuggestionIndex = -1]
  /\ UNCHANGED <<route, page, widget>>
  /\ UNCHANGED cacheVars
  /\ SearchQuiet

\* useDebouncedValue timer fires in TaxonomyChart, then the autocomplete effect
ChartDebounce ==
  /\ route = "taxonomy"
  /\ chart.debouncedInput # chart.inputValue
  /\ LET combined == ChartSuggest(chart.inputValue)
     IN  chart' = [chart EXCEPT !.debouncedInput = chart.inputValue,
                                !.suggestions = combined,
                                !.showSuggestions = Len(combined) > 0,
                                !.activeSuggestionIndex = -1]
  /\ UNCHANGED <<route, page, widget>>
  /\ UNCHANGED cacheVars
  /\ SearchQuiet

\* search page input onChange
PageInput(v) ==
  /\ route = "search"
  /\ v \in Edits(page.inputValue)
  /\ page' = IF Len(trim(v)) > 0
               THEN [page EXCEPT !.inputValue = v, !.showSuggestions = TRUE]
               ELSE [page EXCEPT !.inputValue = v, !.showSuggestions = FALSE,
                                 !.suggestions = <<>>]
  /\ UNCHANGED <<route, chart, widget>>
  /\ UNCHANGED cacheVars
  /\ SearchQuiet

\* useDebouncedValue timer fires in the search page, then the autocomplete effect
PageDebounce ==
  /\ route = "search"
  /\ page.debouncedInput # page.inputValue
  /\ LET filtered == PageSuggest(page.inputValue)
     IN  page' = [page EXCEPT !.debouncedInput = page.inputValue,
                              !.suggestions = filtered,
                              !.showSuggestions = Len(filtered) > 0,
                              !.activeSuggestionIndex = -1]
  /\ UNCHANGED <<route, chart, widget>>
  /\ UNCHANGED cacheVars
  /\ SearchQuiet

\* widget handleInputChange: the input shows searchTerm, the typed value waits
\* in the debounce timer
WidgetInput(v) ==
  /\ route = "widget"
  /\ v \in Edits(widget.searchTerm)
  /\ widget' = [widget EXCEPT !.typed = v, !.timer = TRUE, !.suggestionIndex = -1]
  /\ UNCHANGED <<route, chart, page>>
  /\ UNCHANGED cacheVars
  /\ SearchQuiet

\* widget debounce timer fires: setSearchTerm(value), then the suggestions effect
WidgetDebounce ==
  /\ route = "widget"
  /\ widget.timer
  /\ LET filtered == WidgetSuggest(widget.typed)
     IN  widget' = IF widget.typed = widget.searchTerm
                     THEN [widget EXCEPT !.timer = FALSE]
                     ELSE [widget EXCEPT !.timer = FALSE,
                                         !.searchTerm = widget.typed,
                                         !.suggestions = filtered,
                                         !.showSuggestions = Len(filtered) > 0]
  /\ UNCHANGED <<route, chart, page>>
  /\ UNCHANGED cacheVars
  /\ SearchQuiet

SuggestNext ==
  \/ \E v \in Edits(chart.inputValue) : ChartInput(v)
  \/ ChartDebounce
  \/ \E v \in Edits(page.inputValue) : PageInput(v)
  \/ PageDebounce
  \/ \E v \in Edits(widget.searchTerm) : WidgetInput(v)
  \/ WidgetDebounce

SuggestSpecInit ==
  SuggestInit /\ CacheInit /\ SearchInit /\ HierarchyIdle /\ SiteIdle

SpecSuggest == SuggestSpecInit /\ [][SuggestNext]_vars

\* the rank panels belong to the taxonomy page
CacheSpecInit ==
  /\ route = "taxonomy"
  /\ chart = AutoInit
  /\ page = AutoInit
  /\ widget = WidgetInit
  /\ CacheInit
  /\ SearchInit
  /\ HierarchyIdle
  /\ SiteIdle

SpecCache == CacheSpecInit /\ [][CacheNext]_vars

(***************************************************************************)
(* Disposal of the chart page.  App routes mount one page at a time; on   *)
(* leaving /taxonomy React drops the component state (openRanks,           *)
(* rankLoading, the inputs) while the module-level rankCache and           *)
(* rankLastFetchTime live on.  The component registers no cleanup, the     *)
(* AbortController of aggregateRankData is aborted in its finally block    *)
(* only, and fetchWithTimeout replaces any caller signal by its own, so    *)
(* the requests in flight stay in flight.                                  *)
(***************************************************************************)
Unmount ==
  /\ route = "taxonomy"
  /\ route' = "search"
  /\ chart' = AutoInit
  /\ openRanks' = [k \in Keys |-> FALSE]
  /\ rankLoading' = [k \in Keys |-> FALSE]
  /\ lastSettled' = NoSettle
  /\ UNCHANGED <<page, widget>>
  /\ UNCHANGED <<now, rankCache, rankLastFetchTime, fetches, nextId, netCalls>>
  /\ UNCHANGED preRefresh
  /\ SearchQuiet

DisposeNext ==
  \/ CacheNext
  \/ Unmount

SpecDispose == CacheSpecInit /\ [][DisposeNext]_vars

----------------------------------------------------------------------------
(***************************************************************************)
(* Search entry paths of the taxonomy page and of the species search page, *)
(* and the calls they start: generateTaxonomy / generateTaxonomyHierarchy  *)
(* (part_003) and searchAnimal (part_005).                                 *)
(***************************************************************************)
\* calls of generateTaxonomy / searchAnimal that pass validation, in total
MaxSearches == 2

\* how many entries of the suggestion list and of the dropdown are clicked
MaxChoices == 1

\* text found in the input when a search is triggered
SearchInputs == {<<>>, <<" ">>, <<" ", "p">>}

\* values of the species parameter of /taxonomy?species=...
UrlSpecies == {<<>>, <<" ">>, <<"p">>}

\* what the encyclopedia provider answers to the summary request of a name
WikiOutcomes == {"ok", "httpError", "networkError"}

\* what the taxonomy provider answers to the match request
MatchOutcomes == {"found", "noUsageKey", "networkError", "badJson"}

\* what the taxonomy provider answers to the species request
SpeciesOutcomes == {"ok", "httpError", "networkError", "badJson"}

\* a handler that starts no call and shows nothing
NoSearch ==
  /\ toast' = "none"
  /\ sent' = {}
  /\ UNCHANGED <<loading, tasks, nextTask>>

\* generateTaxonomy up to its first await: the validation, then the match
\* request of generateTaxonomyHierarchy
generateTaxonomy(scientificName) ==
  IF trim(scientificName) = <<>>
    THEN /\ toast' = "Please enter a scientific name"
         /\ sent' = {}
         /\ UNCHANGED <<loading, tasks, nextTask>>
    ELSE /\ nextTask <= MaxSearches
         /\ \E w \in WikiOutcomes :
              tasks' = tasks \cup
                {[id |-> nextTask, name |-> scientificName, pc |-> "match",
                  wiki |-> w, hierarchy |-> <<>>]}
         /\ nextTask' = nextTask + 1
         /\ loading' = TRUE
         /\ sent' = {"gbif"}
         /\ toast' = "none"

\* Generate button of the taxonomy page
ChartButton ==
  LET toSearch == IF trim(chart.inputValue) # <<>> THEN trim(chart.inputValue)
                  ELSE searchQuery
  IN  /\ route = "taxonomy"
      /\ ~loading
      /\ searchQuery' = toSearch
      /\ generateTaxonomy(toSearch)
      /\ lastEntry' = [path |-> "button", query |-> toSearch]
      /\ lastDone' = NoDone
      /\ UNCHANGED <<taxonomyData, animalData>>
      /\ UNCHANGED suggestVars
      /\ UNCHANGED cacheVars
      /\ UNCHANGED hierarchyVars
      /\ UNCHANGED siteVars
      /\ UNCHANGED fastaVars

\* handleInputKeyDown of the taxonomy page, key Enter
ChartEnter ==
  LET listed == chart.showSuggestions /\ Len(chart.suggestions) > 0
      toSearch == trim(chart.inputValue)
  IN  /\ route = "taxonomy"
      /\ IF listed /\ chart.activeSuggestionIndex >= 0
           THEN LET chosen == chart.suggestions[chart.activeSuggestionIndex + 1]
                IN  /\ chart' = [chart EXCEPT !.inputValue = chosen,
                                              !.showSuggestions = FALSE,
                                              !.activeSuggestionIndex = -1]
                    /\ searchQuery' = chosen
                    /\ generateTaxonomy(chosen)
                    /\ lastEntry' = [path |-> "enter", query |-> chosen]
           ELSE /\ lastEntry' = [path |-> "enter", query |-> chart.inputValue]
                /\ IF toSearch # <<>>
                     THEN /\ searchQuery' = toSearch
                          /\ generateTaxonomy(toSearch)
                          /\ chart' = IF listed
                                        THEN [chart EXCEPT !.showSuggestions = FALSE]
                                        ELSE chart
                     ELSE /\ NoSearch
                          /\ UNCHANGED <<searchQuery, chart>>
      /\ lastDone' = NoDone
      /\ UNCHANGED <<taxonomyData, animalData>>
      /\ UNCHANGED <<route, page, widget>>
      /\ UNCHANGED cacheVars
      /\ UNCHANGED hierarchyVars
      /\ UNCHANGED siteVars
      /\ UNCHANGED fastaVars

\* chooseSuggestion of the taxonomy page: a suggestion is clicked
ChartChoose(name) ==
  /\ route = "taxonomy"
  /\ chart.showSuggestions
  /\ name \in FirstOf(chart.suggestions, MaxChoices)
  /\ chart' = [chart EXCEPT !.inputValue = name, !.showSuggestions = FALSE,
                            !.activeSuggestionIndex = -1]
  /\ searchQuery' = name
  /\ generateTaxonomy(name)
  /\ lastEntry' = [path |-> "suggestion", query |-> name]
  /\ lastDone' = NoDone
  /\ UNCHANGED <<taxonomyData, animalData>>
  /\ UNCHANGED <<route, page, widget>>
  /\ UNCHANGED cacheVars
  /\ UNCHANGED hierarchyVars
  /\ UNCHANGED siteVars
  /\ UNCHANGED fastaVars

\* handleDropdownSelect of the taxonomy page
ChartDropdown(scientificName) ==
  /\ route = "taxonomy"
  /\ scientificName \in FirstOf(COMMON_SPECIES, MaxChoices)
  /\ chart' = [chart EXCEPT !.inputValue = scientificName]
  /\ searchQuery' = scientificName
  /\ generateTaxonomy(scientificName)
  /\ lastEntry' = [path |-> "dropdown", query |-> scientificName]
  /\ lastDone' = NoDone
  /\ UNCHANGED <<taxonomyData, animalData>>
  /\ UNCHANGED <<route, page, widget>>
  /\ UNCHANGED cacheVars
  /\ UNCHANGED hierarchyVars
  /\ UNCHANGED siteVars
  /\ UNCHANGED fastaVars

\* effect on searchParams: the page is entered with ?species=...
ChartUrl(species) ==
  /\ route = "taxonomy"
  /\ species \in UrlSpecies
  /\ IF species # <<>>
       THEN /\ searchQuery' = species
            /\ chart' = [chart EXCEPT !.inputValue = species]
            /\ generateTaxonomy(species)
       ELSE /\ NoSearch
            /\ UNCHANGED <<searchQuery, chart>>
  /\ lastEntry' = [path |-> "url", query |-> species]
  /\ lastDone' = NoDone
  /\ UNCHANGED <<taxonomyData, animalData>>
  /\ UNCHANGED <<route, page, widget>>
  /\ UNCHANGED cacheVars
  /\ UNCHANGED hierarchyVars
  /\ UNCHANGED siteVars
  /\ UNCHANGED fastaVars

\* generateTaxonomyHierarchy throws in call t; generateTaxonomy catches
GenerationFailed(t, match, species, error) ==
  /\ tasks' = tasks \ {t}
  /\ toast' = "Generation failed"
  /\ loading' = FALSE
  /\ sent' = {}
  /\ lastDone' = [taxonomy |-> "failed", wiki |-> t.wiki,
                  wikiInvoked |-> t.pc = "wiki", funFact |-> "none",
                  reported |-> "Generation failed", match |-> match,
                  species |-> species, error |-> error]
  /\ UNCHANGED taxonomyData

\* a match step that reports every failure as a missing taxonomy
MatchErrorAlwaysNotFound(outcome) ==
  IF outcome = "found" THEN "none" ELSE "No taxonomy found"

\* the error generateTaxonomyHierarchy throws once the match request has
\* settled: the rejection of fetch, the SyntaxError of matchRes.json(), or
\* 'No taxonomy found' for a body without usageKey (whatever the status)
MatchError(outcome) ==
  CASE outcome = "found" -> "none"
    [] outcome = "noUsageKey" -> "No taxonomy found"
    [] outcome = "networkError" -> "TypeError"
    [] outcome = "badJson" -> "SyntaxError"

\* the error thrown once the species request has settled
SpeciesError(outcome) ==
  CASE outcome = "networkError" -> "TypeError"
    [] outcome = "badJson" -> "SyntaxError"
    [] OTHER -> "none"

\* the match request of call t settles
MatchDone(t, outcome) ==
  /\ route = "taxonomy"
  /\ t \in tasks
  /\ t.pc = "match"
  /\ outcome \in MatchOutcomes
  /\ IF outcome = "found"
       THEN /\ tasks' = (tasks \ {t}) \cup {[t EXCEPT !.pc = "species"]}
            /\ sent' = {"gbif"}
            /\ toast' = "none"
            /\ lastDone' = [NoDone EXCEPT !.match = outcome]
            /\ UNCHANGED <<loading, taxonomyData>>
       ELSE GenerationFailed(t, outcome, "none", MatchError(outcome))
  /\ lastEntry' = NoCall
  /\ UNCHANGED <<searchQuery, animalData, nextTask>>
  /\ UNCHANGED suggestVars
  /\ UNCHANGED cacheVars
  /\ UNCHANGED hierarchyVars
  /\ UNCHANGED siteVars
  /\ UNCHANGED fastaVars

\* body of the species response: the classification of a found species, or
\* an error body without classification fields
SpeciesBody(outcome) == IF outcome = "ok" THEN FullRecord ELSE EmptyRecord

\* the species request of call t settles
SpeciesDone(t, outcome) ==
  /\ route = "taxonomy"
  /\ t \in tasks
  /\ t.pc = "species"
  /\ outcome \in SpeciesOutcomes
  /\ IF outcome \in {"ok", "httpError"}
       THEN /\ tasks' = (tasks \ {t}) \cup
                 {[t EXCEPT !.pc = "wiki", !.hierarchy =
                                 Hierarchy(SpeciesBody(outcome), t.name)]}
            /\ sent' = {"wikipedia"}
            /\ toast' = "none"
            /\ lastDone' = [NoDone EXCEPT !.species = outcome]
            /\ UNCHANGED <<loading, taxonomyData>>
       ELSE GenerationFailed(t, "none", outcome, SpeciesError(outcome))
  /\ lastEntry' = NoCall
  /\ UNCHANGED <<searchQuery, animalData, nextTask>>
  /\ UNCHANGED suggestVars
  /\ UNCHANGED cacheVars
  /\ UNCHANGED hierarchyVars
  /\ UNCHANGED siteVars
  /\ UNCHANGED fastaVars

\* funFact of generateTaxonomyHierarchy
FunFact(outcome) == IF outcome = "ok" THEN "extract" ELSE "No fun fact found."

\* the summary request of call t settles; generateTaxonomyHierarchy returns
\* and generateTaxonomy shows the chart
WikiDone(t) ==
  /\ route = "taxonomy"
  /\ t \in tasks
  /\ t.pc = "wiki"
  /\ taxonomyData' = [species |-> t.name, hierarchy |-> t.hierarchy,
                      funFact |-> FunFact(t.wiki)]
  /\ tasks' = tasks \ {t}
  /\ toast' = "Taxonomy generated!"
  /\ loading' = FALSE
  /\ sent' = {}
  /\ lastDone' = [taxonomy |-> "ok", wiki |-> t.wiki, wikiInvoked |-> TRUE,
                  funFact |-> FunFact(t.wiki),
                  reported |-> "Taxonomy generated!", match |-> "none",
                  species |-> "none", error |-> "none"]
  /\ lastEntry' = NoCall
  /\ UNCHANGED <<searchQuery, animalData, nextTask>>
  /\ UNCHANGED suggestVars
  /\ UNCHANGED cacheVars
  /\ UNCHANGED hierarchyVars
  /\ UNCHANGED siteVars
  /\ UNCHANGED fastaVars

\* fetchFasta(query, signal) up to its first await: the cached text, or the
\* esearch request.  `had` tells that the call of the previous effect run was
\* pending: the cleanup has aborted its signal, and its finally block runs
\* setFastaLoading(false) after this call has set the flag
fetchFasta(query, had) ==
  LET q == trim(query)
  IN  /\ fastaCache' = fastaCache
      /\ IF q = <<>>
           THEN /\ fastaCall' = NoLookup
                /\ fastaLoading' = IF had THEN FALSE ELSE fastaLoading
                /\ UNCHANGED <<fasta, fastaError>>
           ELSE IF MapHas(fastaCache, q)
             THEN /\ fasta' = fastaCache[q]
                  /\ fastaError' = "null"
                  /\ fastaLoading' = FALSE
                  /\ fastaCall' = NoLookup
             ELSE /\ fasta' = "null"
                  /\ fastaError' = "null"
                  /\ fastaLoading' = ~had
                  /\ fastaCall' = [q |-> q, pc |-> "esearch"]

\* the effects of the FASTA panel after a render in which searchQuery has
\* become `query` or animalData has changed: the cleanup of the previous run
\* aborts its controller; the effect on searchQuery clears the panel; the
\* auto-fetch effect shows the cached text or calls fetchFasta
FastaEffects(query) ==
  IF query = <<>>
    THEN /\ fastaCall' = NoLookup
         /\ fasta' = "null"
         /\ fastaError' = "null"
         /\ fastaLoading' = FALSE
         /\ fastaCache' = fastaCache
    ELSE fetchFasta(query, fastaCall # NoLookup)

\* the step sends an esearch request for `query`
SendsEsearch(query) == query # <<>> /\ ~MapHas(fastaCache, trim(query))

\* searchAnimal up to its await, called from state pg of the input: the
\* validation, the commit of the query (the effect on searchQuery copies it
\* to the input, the FASTA effects run) and the summary request
searchAnimal(name, pg) ==
  LET query == trim(name)
  IN  IF query = <<>>
        THEN /\ toast' = "Please enter a scientific name"
             /\ sent' = {}
             /\ page' = pg
             /\ UNCHANGED <<searchQuery, loading, tasks, nextTask>>
             /\ UNCHANGED fastaVars
        ELSE /\ nextTask <= MaxSearches
             /\ IF query # searchQuery
                  THEN FastaEffects(query)
                  ELSE UNCHANGED fastaVars
             /\ searchQuery' = query
             /\ page' = IF query # searchQuery
                          THEN [pg EXCEPT !.inputValue = query] ELSE pg
             /\ \E w \in WikiOutcomes :
                  tasks' = tasks \cup
                    {[id |-> nextTask, name |-> query, pc |-> "wiki",
                      wiki |-> w, hierarchy |-> <<>>]}
             /\ nextTask' = nextTask + 1
             /\ loading' = TRUE
             /\ sent' = {"wikipedia"} \cup
                        IF query # searchQuery /\ SendsEsearch(query)
                          THEN {"ncbi"} ELSE {}
             /\ toast' = "none"

\* Search button of the species search page
PageButton ==
  LET toSearch == IF trim(page.inputValue) # <<>> THEN trim(page.inputValue)
                  ELSE searchQuery
  IN  /\ route = "search"
      /\ ~loading
      /\ searchAnimal(toSearch, page)
      /\ lastEntry' = [path |-> "button", query |-> toSearch]
      /\ lastDone' = NoDone
      /\ UNCHANGED <<taxonomyData, animalData>>
      /\ UNCHANGED <<route, chart, widget>>
      /\ UNCHANGED cacheVars
      /\ UNCHANGED hierarchyVars
      /\ UNCHANGED siteVars

\* handleInputKeyDown of the species search page, key Enter
PageEnter ==
  LET listed == page.showSuggestions /\ Len(page.suggestions) > 0
  IN  /\ route = "search"
      /\ IF listed /\ page.activeSuggestionIndex >= 0
           THEN LET chosen == page.suggestions[page.activeSuggestionIndex + 1]
                IN  /\ searchAnimal(chosen,
                          [page EXCEPT !.inputValue = chosen,
                                       !.showSuggestions = FALSE,
                                       !.activeSuggestionIndex = -1])
                    /\ lastEntry' = [path |-> "enter", query |-> chosen]
           ELSE /\ searchAnimal(page.inputValue,
                      IF listed THEN [page EXCEPT !.showSuggestions = FALSE]
                      ELSE page)
                /\ lastEntry' = [path |-> "enter", query |-> page.inputValue]
      /\ lastDone' = NoDone
      /\ UNCHANGED <<taxonomyData, animalData>>
      /\ UNCHANGED <<route, chart, widget>>
      /\ UNCHANGED cacheVars
      /\ UNCHANGED hierarchyVars
      /\ UNCHANGED siteVars

\* chooseSuggestion of the species search page: a suggestion is clicked
PageChoose(name) ==
  /\ route = "search"
  /\ page.showSuggestions
  /\ name \in FirstOf(page.suggestions, MaxChoices)
  /\ searchAnimal(name, [page EXCEPT !.inputValue = name,
                                     !.showSuggestions = FALSE,
                                     !.activeSuggestionIndex = -1])
  /\ lastEntry' = [path |-> "suggestion", query |-> name]
  /\ lastDone' = NoDone
  /\ UNCHANGED <<taxonomyData, animalData>>
  /\ UNCHANGED <<route, chart, widget>>
  /\ UNCHANGED cacheVars
  /\ UNCHANGED hierarchyVars
  /\ UNCHANGED siteVars

\* handleDropdownSelect of the species search page
PageDropdown(scientificName) ==
  /\ route = "search"
  /\ scientificName \in FirstOf(COMMON_SPECIES, MaxChoices)
  /\ searchAnimal(scientificName, [page EXCEPT !.inputValue = scientificName])
  /\ lastEntry' = [path |-> "dropdown", query |-> scientificName]
  /\ lastDone' = NoDone
  /\ UNCHANGED <<taxonomyData, animalData>>
  /\ UNCHANGED <<route, chart, widget>>
  /\ UNCHANGED cacheVars
  /\ UNCHANGED hierarchyVars
  /\ UNCHANGED siteVars

\* the FASTA effects after a render in which animalData is a new object and
\* searchQuery is the same: the auto-fetch effect alone runs again
FastaEffectsOfData ==
  IF searchQuery = <<>>
    THEN /\ fastaCall' = NoLookup
         /\ fastaLoading' = IF fastaCall # NoLookup THEN FALSE ELSE fastaLoading
         /\ UNCHANGED <<fasta, fastaError, fastaCache>>
    ELSE IF MapHas(fastaCache, searchQuery)
      THEN /\ fasta' = fastaCache[searchQuery]
           /\ fastaError' = "null"
           /\ fastaLoading' = IF fastaCall # NoLookup THEN FALSE ELSE fastaLoading
           /\ fastaCall' = NoLookup
           /\ fastaCache' = fastaCache
      ELSE fetchFasta(searchQuery, fastaCall # NoLookup)

\* the summary request of searchAnimal call t settles; setAnimalData of a
\* new object makes the FASTA auto-fetch effect run again
PageWikiDone(t) ==
  /\ route = "search"
  /\ t \in tasks
  /\ t.pc = "wiki"
  /\ IF t.wiki = "ok"
       THEN /\ animalData' = [title |-> t.name]
            /\ toast' = "Animal data found!"
            /\ FastaEffectsOfData
            /\ sent' = IF SendsEsearch(searchQuery) THEN {"ncbi"} ELSE {}
       ELSE /\ animalData' = animalData
            /\ toast' = "Search failed"
            /\ sent' = {}
            /\ UNCHANGED fastaVars
  /\ tasks' = tasks \ {t}
  /\ loading' = FALSE
  /\ lastEntry' = NoCall
  /\ lastDone' = NoDone
  /\ UNCHANGED <<searchQuery, taxonomyData, nextTask>>
  /\ UNCHANGED suggestVars
  /\ UNCHANGED cacheVars
  /\ UNCHANGED hierarchyVars
  /\ UNCHANGED siteVars

SearchNext ==
  \/ ChartButton
  \/ ChartEnter
  \/ \E n \in FirstOf(chart.suggestions, MaxChoices) : ChartChoose(n)
  \/ \E n \in FirstOf(COMMON_SPECIES, MaxChoices) : ChartDropdown(n)
  \/ \E s \in UrlSpecies : ChartUrl(s)
  \/ ChartDebounce
  \/ \E t \in tasks : \E o \in MatchOutcomes : MatchDone(t, o)
  \/ \E t \in tasks : \E o \in SpeciesOutcomes : SpeciesDone(t, o)
  \/ \E t \in tasks : WikiDone(t)
  \/ PageButton
  \/ PageEnter
  \/ \E n \in FirstOf(page.suggestions, MaxChoices) : PageChoose(n)
  \/ \E n \in FirstOf(COMMON_SPECIES, MaxChoices) : PageDropdown(n)
  \/ PageDebounce
  \/ \E t \in tasks : PageWikiDone(t)

\* the input as typing v and the debounce leave it, with a suggestion
\* highlighted or not
Typed(v, suggest, active) ==
  [inputValue |-> v, debouncedInput |-> v, suggestions |-> suggest,
   showSuggestions |-> Len(suggest) > 0, activeSuggestionIndex |-> active]

SearchSpecInit ==
  /\ route \in {"taxonomy", "search"}
  /\ \E v \in SearchInputs :
       \E a \in -1..(MaxChoices - 1) :
         /\ a < Len(ChartSuggest(v))
         /\ chart = IF route = "taxonomy" THEN Typed(v, ChartSuggest(v), a)
                    ELSE AutoInit
         /\ page = IF route = "search" THEN Typed(v, PageSuggest(v), a)
                   ELSE AutoInit
  /\ widget = WidgetInit
  /\ CacheInit
  /\ SearchInit
  /\ HierarchyIdle
  /\ SiteIdle

SpecSearch == SearchSpecInit /\ [][SearchNext]_vars

(***************************************************************************)
(* FASTA lookup of the species search page: esearch for an identifier,     *)
(* then efetch of its sequence.                                            *)
(***************************************************************************)
EsearchOutcomes == {"found", "noId", "httpError", "networkError", "badJson"}
EfetchOutcomes == {"ok", "httpError", "networkError"}

\* a step of the FASTA lookup: no toast, no search call
FastaStep ==
  /\ toast' = "none"
  /\ lastEntry' = NoCall
  /\ lastDone' = NoDone
  /\ UNCHANGED <<searchQuery, loading, taxonomyData, animalData, tasks, nextTask>>
  /\ UNCHANGED suggestVars
  /\ UNCHANGED cacheVars
  /\ UNCHANGED hierarchyVars
  /\ UNCHANGED siteVars

\* the esearch request of the pending fetchFasta call settles
FastaSearchDone(outcome) ==
  /\ route = "search"
  /\ fastaCall.pc = "esearch"
  /\ outcome \in EsearchOutcomes
  /\ IF outcome = "found"
       THEN /\ fastaCall' = [fastaCall EXCEPT !.pc = "efetch"]
            /\ sent' = {"ncbi"}
            /\ UNCHANGED <<fasta, fastaLoading, fastaError>>
       ELSE /\ fastaCall' = NoLookup
            /\ sent' = {}
            /\ fastaLoading' = FALSE
            /\ fastaError' = CASE outcome = "noId" -> "No sequence found."
                                [] outcome = "httpError" -> "NCBI search failed"
                                [] OTHER -> "message"
            /\ UNCHANGED fasta
  /\ fastaCache' = fastaCache
  /\ FastaStep

\* the efetch request of the pending fetchFasta call settles
FastaFetchDone(outcome) ==
  /\ route = "search"
  /\ fastaCall.pc = "efetch"
  /\ outcome \in EfetchOutcomes
  /\ IF outcome = "ok"
       THEN /\ fastaCache' = MapSet(fastaCache, fastaCall.q, "fastaText")
            /\ fasta' = "fastaText"
            /\ fastaError' = "null"
       ELSE /\ fastaError' = IF outcome = "httpError" THEN "NCBI efetch failed"
                             ELSE "message"
            /\ UNCHANGED <<fasta, fastaCache>>
  /\ fastaLoading' = FALSE
  /\ fastaCall' = NoLookup
  /\ sent' = {}
  /\ FastaStep

FastaNext ==
  \/ PageButton
  \/ \E n \in FirstOf(COMMON_SPECIES, MaxChoices) : PageDropdown(n)
  \/ \E t \in tasks : PageWikiDone(t)
  \/ \E o \in EsearchOutcomes : FastaSearchDone(o)
  \/ \E o \in EfetchOutcomes : FastaFetchDone(o)

FastaSpecInit ==
  /\ route = "search"
  /\ chart = AutoInit
  /\ page = Typed(<<" ", "p">>, PageSuggest(<<" ", "p">>), -1)
  /\ widget = WidgetInit
  /\ CacheInit
  /\ SearchInit
  /\ HierarchyIdle
  /\ SiteIdle

SpecFasta == FastaSpecInit /\ [][FastaNext]_vars

(***************************************************************************)
(* Red List page.  A card is mounted when the page is entered and          *)
(* unmounted when it is left; its effect registers no cleanup and passes   *)
(* no signal, so a request outlives the card that sent it.                 *)
(***************************************************************************)
RedListQuiet ==
  UNCHANGED <<suggestVars, cacheVars, searchVars, fastaVars, hierarchyVars,
              newsletterVars>>

\* a card is mounted: useState(null), then its effect calls
\* fetchWikiSummary(brief.scientificName), which answers from WIKI_CACHE or
\* sends the request
MountCard(name) ==
  LET key == toLowerCase(name)
  IN  /\ route = "red-list"
      /\ name \notin mountedCards
      /\ mountedCards' = mountedCards \cup {name}
      /\ IF MapHas(WIKI_CACHE, key)
           THEN /\ cardWiki' = MapSet(cardWiki, name, WIKI_CACHE[key])
                /\ lastSummary' = [outcome |-> "cached", key |-> key,
                                   result |-> WIKI_CACHE[key]]
                /\ UNCHANGED <<summaryCalls, nextSummary>>
           ELSE /\ nextSummary <= MaxSummaries
                /\ cardWiki' = MapSet(cardWiki, name, NoSummary)
                /\ summaryCalls' = summaryCalls \cup
                     {[id |-> nextSummary, key |-> key, card |-> name,
                       live |-> TRUE]}
                /\ nextSummary' = nextSummary + 1
                /\ lastSummary' = NoSummaryDone
      /\ UNCHANGED WIKI_CACHE
      /\ RedListQuiet

\* a card is unmounted: its state is dropped, its request goes on
UnmountCard(name) ==
  /\ route = "red-list"
  /\ name \in mountedCards
  /\ mountedCards' = mountedCards \ {name}
  /\ cardWiki' = MapDelete(cardWiki, name)
  /\ summaryCalls' = {[c EXCEPT !.live = c.live /\ c.card # name] :
                        c \in summaryCalls}
  /\ lastSummary' = NoSummaryDone
  /\ UNCHANGED <<WIKI_CACHE, nextSummary>>
  /\ RedListQuiet

\* the request of call c settles: fetchWikiSummary stores the summary of an
\* ok response and resolves; the card that called it, if still there, runs
\* setWiki
SummaryDone(c, outcome) ==
  LET r == SummaryResult(c.id, outcome)
  IN  /\ c \in summaryCalls
      /\ outcome \in SummaryOutcomes
      /\ summaryCalls' = summaryCalls \ {c}
      /\ WIKI_CACHE' = IF outcome = "ok" THEN MapSet(WIKI_CACHE, c.key, r)
                       ELSE WIKI_CACHE
      /\ cardWiki' = IF c.live THEN MapSet(cardWiki, c.card, r) ELSE cardWiki
      /\ lastSummary' = [outcome |-> outcome, key |-> c.key, result |-> r]
      /\ UNCHANGED <<mountedCards, nextSummary>>
      /\ RedListQuiet

RedListNext ==
  \/ \E n \in Cards : MountCard(n)
  \/ \E n \in Cards : UnmountCard(n)
  \/ \E c \in summaryCalls : \E o \in SummaryOutcomes : SummaryDone(c, o)

RedListSpecInit ==
  /\ route = "red-list"
  /\ chart = AutoInit
  /\ page = AutoInit
  /\ widget = WidgetInit
  /\ CacheInit
  /\ SearchInit
  /\ HierarchyIdle
  /\ SiteIdle

SpecRedList == RedListSpecInit /\ [][RedListNext]_vars

----------------------------------------------------------------------------
(***************************************************************************)
(* Properties of suggest.                                                  *)
(***************************************************************************)
\* names of `names` that contain the lower-cased query
Matching(names, query) ==
  SelectSeq(names, LAMBDA n : includes(toLowerCase(n), toLowerCase(query)))

\* sugg lists only names containing the query, the startsWith matches before
\* the other matches, and each tier in the order of `names`
TwoTier(sugg, query, names) ==
  LET lowerQ == toLowerCase(query)
      starts(n) == startsWith(toLowerCase(n), lowerQ)
  IN  /\ \A i \in 1..Len(sugg) :
           IndexOf(names, sugg[i]) > 0 /\ includes(toLowerCase(sugg[i]), lowerQ)
      /\ \A i, j \in 1..Len(sugg) :
           i < j =>
             /\ ~(~starts(sugg[i]) /\ starts(sugg[j]))
             /\ (starts(sugg[i]) <=> starts(sugg[j]))
                  => IndexOf(names, sugg[i]) < IndexOf(names, sugg[j])

\* sugg is empty for a blank input and for no match, and holds
\* min(10, number of matches) names otherwise
Capped(sugg, input, names) ==
  LET n == Len(Matching(names, trim(input)))
  IN  /\ Len(sugg) <= 10
      /\ trim(input) = <<>> => sugg = <<>>
      /\ n = 0 => sugg = <<>>
      /\ trim(input) # <<>> => Len(sugg) = IF n > 10 THEN 10 ELSE n

\* C9: in every search input, each evaluation of the suggestions for a non-empty
\* query lists the names starting with the query before the names that only
\* contain it, keeps the list order inside each tier and lists no other name.
C9_TwoTierInEveryInput ==
  [][/\ ChartDebounce /\ trim(chart'.debouncedInput) # <<>>
          => TwoTier(chart'.suggestions, trim(chart'.debouncedInput),
                     ALL_SCIENTIFIC_NAMES)
     /\ PageDebounce /\ trim(page'.debouncedInput) # <<>>
          => TwoTier(page'.suggestions, trim(page'.debouncedInput),
                     ALL_SCIENTIFIC_NAMES)
     /\ WidgetDebounce /\ trim(widget'.searchTerm) # <<>>
          => TwoTier(widget'.suggestions, trim(widget'.searchTerm),
                     allScientificNames)]_vars

\* C10: in every search input, each evaluation of the suggestions yields at
\* most 10 names, none for an empty or blank input or when nothing matches,
\* and 10 names when more than 10 match.
C10_AtMostTenNoneForBlank ==
  [][/\ ChartDebounce
          => Capped(chart'.suggestions, chart'.debouncedInput, ALL_SCIENTIFIC_NAMES)
     /\ PageDebounce
          => Capped(page'.suggestions, page'.debouncedInput, ALL_SCIENTIFIC_NAMES)
     /\ WidgetDebounce /\ widget'.searchTerm # widget.searchTerm
          => Capped(widget'.suggestions, widget'.searchTerm, allScientificNames)]_vars

\* the same two statements of the TaxonomyChart input alone
ChartTwoTier ==
  [][ChartDebounce /\ trim(chart'.debouncedInput) # <<>>
       => TwoTier(chart'.suggestions, trim(chart'.debouncedInput),
                  ALL_SCIENTIFIC_NAMES)]_vars

ChartAndPageCapped ==
  [][/\ ChartDebounce
          => Capped(chart'.suggestions, chart'.debouncedInput, ALL_SCIENTIFIC_NAMES)
     /\ PageDebounce
          => Capped(page'.suggestions, page'.debouncedInput, ALL_SCIENTIFIC_NAMES)]_vars

----------------------------------------------------------------------------
(***************************************************************************)
(* Properties of the rank cache.                                           *)
(***************************************************************************)
\* two texts that differ only in letter case and outer blanks
SameName(a, b) == trim(toLowerCase(a)) = trim(toLowerCase(b))

\* the entry of key k is inside the throttle window
InWindow(k) ==
  /\ MapHas(rankCache, k)
  /\ now - LastFetch(rankLastFetchTime, k) < RANK_FETCH_THROTTLE_MS

\* C1: a get for a key sends no request when an earlier get for the same key
\* sent one less than 1000 ms before, also while that request is in flight.
\* (rankLastFetchTime[k] is the time of the latest request sent for key k.)
C1_OneCallPerWindow ==
  [][\A n \in LevelNames :
       LET k == RankKey(n)
       IN  /\ Get(n) \/ MouseEnter(n)
           /\ now - LastFetch(rankLastFetchTime, k) < RANK_FETCH_THROTTLE_MS
           => netCalls'[k] = netCalls[k]]_vars

\* C2: a get for a name whose case or blank variant has an entry inside the
\* throttle window sends no request and returns that entry.
C2_VariantsShareEntry ==
  [][\A n \in LevelNames :
       \A k \in DOMAIN rankCache :
         Get(n) /\ SameName(k, n) /\ InWindow(k)
           => /\ netCalls' = netCalls
              /\ lastSettled'.status = "resolved"
              /\ lastSettled'.value = rankCache[k]]_vars

\* C3: every refresh sends a request for its key, leaving the key without an
\* entry and with the time of this attempt as its last-fetch time.
C3_RefreshAlwaysFetches ==
  [][\A n \in LevelNames :
       LET k == RankKey(n)
       IN  refreshRank(n)
             => /\ netCalls'[k] = netCalls[k] + 1
                /\ ~MapHas(rankCache', k)
                /\ rankLastFetchTime'[k] = now
                /\ \E f \in fetches' \ fetches : f.key = k /\ f.by = "refresh"]_vars

\* a refresh is in flight that was called less than 1000 ms after an earlier
\* request for the same key: no request is sent before EpochStart
C3_RefreshRightAfterGet ==
  \E f \in fetches :
    /\ f.by = "refresh"
    /\ netCalls[f.key] >= 2
    /\ f.startedAt - EpochStart < RANK_FETCH_THROTTLE_MS

\* C4: when the adapter of a lookup fails, the entry stored for the key has
\* error set and no provider result.
C4_FailedEntryCarriesError ==
  [][\A f \in fetches : \A o \in Outcomes \ {"ok"} :
       Complete(f, o)
         => /\ rankCache'[f.key].error # "null"
            /\ rankCache'[f.key].wiki = "null"]_vars

\* C5: while the entry of a failed lookup is inside the throttle window, a get
\* for the key sends no request, leaves the cache alone and returns that
\* entry, and a refresh for the key sends a request.
C5_FailedEntryIsCached ==
  [][\A k \in DOMAIN rankCache :
       InWindow(k) /\ rankCache[k].wiki = "null"
         => \A n \in {m \in LevelNames : RankKey(m) = k} :
              /\ Get(n) => /\ netCalls' = netCalls
                            /\ rankCache' = rankCache
                            /\ lastSettled'.status = "resolved"
                            /\ lastSettled'.value = rankCache[k]
              /\ refreshRank(n) => netCalls'[k] = netCalls[k] + 1]_vars

\* a get has just been answered from the cache with the entry of a failed lookup
C5_FailedEntryServed ==
  /\ lastSettled.status = "resolved"
  /\ lastSettled.adapter = "none"
  /\ lastSettled.value.id > 0
  /\ lastSettled.value.wiki = "null"
  /\ \E k \in DOMAIN rankCache : rankCache[k] = lastSettled.value /\ InWindow(k)

\* C7: the promise of a get or a refresh is never rejected: it resolves with an
\* entry, whose wiki field is null exactly when the adapter failed.
C7_NeverRejects ==
  /\ lastSettled.status \in {"none", "resolved"}
  /\ lastSettled.status = "resolved" => lastSettled.value.id > 0
  /\ lastSettled.adapter = "failed" => lastSettled.value.wiki = "null"
  /\ lastSettled.adapter = "ok" => lastSettled.value.wiki # "null"

\* a lookup whose adapter failed has just settled
C7_FailureResolved ==
  lastSettled.status = "resolved" /\ lastSettled.adapter = "failed"

----------------------------------------------------------------------------
(***************************************************************************)
(* Properties of the search entry paths and of generateTaxonomy.           *)
(***************************************************************************)
\* the last step took an entry path with a query that is empty after trim
BlankEntry(entry) == entry.path # "none" /\ trim(entry.query) = <<>>

\* C6: when the taxonomy adapter of a request fails and the encyclopedia
\* adapter would succeed for the same name, the encyclopedia adapter is still
\* invoked, its result is populated, and the request is not reported as failed
C6_AdaptersIndependent ==
  (lastDone.taxonomy = "failed" /\ lastDone.wiki = "ok") =>
    /\ lastDone.wikiInvoked
    /\ lastDone.funFact = "extract"
    /\ lastDone.reported # "Generation failed"

\* C8: on every entry path a query that is empty after trim is rejected with
\* the prompt to enter a name, with no request sent and no search or cache
\* state changed
C8_BlankQueryRejected ==
  [][BlankEntry(lastEntry') =>
       /\ toast' = "Please enter a scientific name"
       /\ sent' = {}
       /\ UNCHANGED <<searchQuery, chart, page, loading, tasks, taxonomyData,
                      animalData, rankCache, rankLastFetchTime>>]_vars

\* the part of C8 that every entry path keeps: no request, no call started
BlankQuerySendsNothing ==
  [][BlankEntry(lastEntry') => sent' = {} /\ tasks' = tasks]_vars

\* the species search page keeps all of C8
PageRejectsBlank ==
  [][(route = "search" /\ BlankEntry(lastEntry')) =>
       /\ toast' = "Please enter a scientific name"
       /\ sent' = {}
       /\ UNCHANGED <<searchQuery, page, loading, tasks, animalData>>]_vars

\* a blank query was handed to the species search page
PageBlankEntered == route = "search" /\ BlankEntry(lastEntry)

\* a generateTaxonomy call went through both adapters
BothAdaptersDone == lastDone.taxonomy = "ok" /\ lastDone.wikiInvoked

----------------------------------------------------------------------------
(***************************************************************************)
(* The hierarchy as a function of the classification record.               *)
(***************************************************************************)
HierarchySpecInit ==
  /\ SiteIdle
  /\ queriedName \in ScientificNames
  /\ speciesJson \in SpeciesRecords
  /\ hierarchy = <<>>
  /\ route = "taxonomy"
  /\ chart = AutoInit
  /\ page = AutoInit
  /\ widget = WidgetInit
  /\ CacheInit
  /\ SearchInit

SpecHierarchy == HierarchySpecInit /\ [][BuildHierarchy]_vars

\* the name a rank resolves to: its field, and for Species the queried name
\* when the field is empty
Resolved(i, json, name) ==
  IF json[Fields[i]] # <<>> THEN json[Fields[i]]
  ELSE IF i = Len(Ranks) THEN name ELSE <<>>

\* h holds exactly the ranks with a resolved name, in the order of Ranks
ExactlyNamedLevels(h, json, name) ==
  /\ \A i \in 1..Len(Ranks) :
       Resolved(i, json, name) # <<>>
         <=> \E j \in 1..Len(h) :
               h[j] = [rank |-> Ranks[i], name |-> Resolved(i, json, name)]
  /\ \A j \in 1..Len(h) :
       /\ h[j].name # <<>>
       /\ \E i \in 1..Len(Ranks) : h[j].rank = Ranks[i]
  /\ \A j, k \in 1..Len(h) :
       j < k => \E a, b \in 1..Len(Ranks) :
                  a < b /\ h[j].rank = Ranks[a] /\ h[k].rank = Ranks[b]

\* C11: the hierarchy built from a classification record holds exactly the
\* levels whose resolved name is not empty, in the order Kingdom .. Species;
\* a record with all seven fields populated gives seven entries, and no entry
\* has an empty name.
C11_HierarchyKeepsNamedLevels ==
  [][BuildHierarchy =>
       /\ ExactlyNamedLevels(hierarchy', speciesJson, queriedName)
       /\ speciesJson = FullRecord => Len(hierarchy') = 7]_vars

\* a hierarchy was built from a record with empty fields between populated ones
C11_LevelsDropped ==
  /\ speciesJson.kingdom # <<>>
  /\ speciesJson.class = <<>>
  /\ speciesJson.genus # <<>>
  /\ speciesJson.species = <<>>
  /\ Len(hierarchy) \in 2..6

----------------------------------------------------------------------------
(***************************************************************************)
(* The life of a key of the rank cache.                                    *)
(***************************************************************************)
\* state of key k, read from the cache `cache` and the calls `fs` in flight
KeyState(k, cache, fs) ==
  IF \E f \in fs : f.key = k THEN "Fetching"
  ELSE IF ~MapHas(cache, k) THEN "Empty"
  ELSE IF cache[k].wiki = "null" THEN "Failed"
  ELSE "Populated"

KeyTransitions ==
  {<<"Empty", "Fetching">>, <<"Fetching", "Populated">>, <<"Fetching", "Failed">>,
   <<"Populated", "Fetching">>, <<"Failed", "Fetching">>}

\* C12: a key moves only from Empty to Fetching, from Fetching to Populated
\* or Failed, and from Populated or Failed back to Fetching; a fetch for a key
\* that had a request less than 1000 ms before is started by a refresh only,
\* never by a get.
C12_KeyStateMachine ==
  [][\A k \in Keys :
       LET before == KeyState(k, rankCache, fetches)
           after == KeyState(k, rankCache', fetches')
       IN  /\ before # after => <<before, after>> \in KeyTransitions
           /\ (/\ netCalls'[k] > netCalls[k]
               /\ now - LastFetch(rankLastFetchTime, k) < RANK_FETCH_THROTTLE_MS)
                => \E n \in LevelNames : RankKey(n) = k /\ refreshRank(n)]_vars

\* the transitions alone: they are the only ones a key makes
KeyMovesAlongTransitions ==
  [][\A k \in Keys :
       LET before == KeyState(k, rankCache, fetches)
           after == KeyState(k, rankCache', fetches')
       IN  before # after => <<before, after>> \in KeyTransitions]_vars

----------------------------------------------------------------------------
(***************************************************************************)
(* Entries of the rank cache as a reader finds them.                       *)
(***************************************************************************)
\* e is an entry with every field written
CompleteEntry(e) ==
  /\ DOMAIN e = DOMAIN NoEntry
  /\ e.id > 0
  /\ e.fetchedAt >= EpochStart
  /\ e.wiki \in {"WikiResult", "null"}
  /\ e.error \in {"null", "message"}

\* in the step, key k keeps its entry or gets a complete one that no key held
KeepsOrReplacesWhole(k) ==
  \/ MapHas(rankCache, k) /\ rankCache'[k] = rankCache[k]
  \/ /\ CompleteEntry(rankCache'[k])
     /\ \A j \in DOMAIN rankCache : rankCache[j].id # rankCache'[k].id

----------------------------------------------------------------------------
(***************************************************************************)
(* Overlapping searches.                                                   *)
(***************************************************************************)
\* call t was started for a name that is no longer the committed query
Superseded(t) == t.name # searchQuery

\* C14: the response of a search that has been superseded by a search for
\* another name is discarded when it arrives: it never replaces the result
\* that is displayed.
C14_StaleResponseDiscarded ==
  [][\A t \in tasks :
       (Superseded(t) /\ (WikiDone(t) \/ PageWikiDone(t)))
         => UNCHANGED <<taxonomyData, animalData>>]_vars

\* C15: once the chart page is disposed, the requests it had in flight are
\* cancelled, and nothing is written to the shared rank cache any more
C15_DisposedCallWritesNothing ==
  [][route # "taxonomy" =>
       /\ fetches = {}
       /\ rankCache' = rankCache
       /\ rankLastFetchTime' = rankLastFetchTime]_vars

\* the cache is never written for a disposed page while no request is pending
DisposedWritesOnlyByPending ==
  [][(route # "taxonomy" /\ fetches = {}) =>
       /\ rankCache' = rankCache
       /\ rankLastFetchTime' = rankLastFetchTime]_vars

\* the step writes the cache entry or the last-fetch time of key k
Wrote(k) ==
  \/ MapHas(rankCache', k) # MapHas(rankCache, k)
  \/ MapHas(rankCache, k) /\ rankCache'[k] # rankCache[k]
  \/ MapHas(rankLastFetchTime', k) # MapHas(rankLastFetchTime, k)
  \/ MapHas(rankLastFetchTime, k) /\ rankLastFetchTime'[k] # rankLastFetchTime[k]

\* C16: a request in flight is never cancelled by a call for another key: it
\* leaves the set of requests in flight only by storing its result as the
\* entry of its own key; and a step writes the entry and the last-fetch time
\* of the key of the request it starts or completes, and of no other key
C16_FetchesOfOtherKeysUndisturbed ==
  [][/\ \A f \in fetches \ fetches' :
          MapHas(rankCache', f.key) /\ rankCache'[f.key].id = f.id
     /\ \A k \in Keys :
          Wrote(k) => \E f \in (fetches \ fetches') \cup (fetches' \ fetches) :
                        f.key = k]_vars

\* the request for one key completed and populated its entry after a get for
\* another key had been issued while it was in flight
C16_OlderFetchCompleted ==
  \E k \in DOMAIN rankCache : \E f \in fetches :
    /\ f.key # k
    /\ f.by = "get"
    /\ rankCache[k].id < f.id
    /\ f.startedAt < rankCache[k].fetchedAt

(***************************************************************************)
(* Termination of the calls.  The requests of a rank lookup go through     *)
(* fetchWithTimeout, whose timer aborts them; the requests of              *)
(* generateTaxonomyHierarchy are plain fetch calls with no timer.  Timers  *)
(* fire and time passes (weak fairness); a provider owes no response, so   *)
(* no fairness is assumed for the responses.                               *)
(***************************************************************************)
\* the rank card whose lookups are followed
TimedRanks == {<<"p">>}

TimeoutNext ==
  \/ \E n \in FirstOf(COMMON_SPECIES, MaxChoices) : ChartDropdown(n)
  \/ \E t \in tasks : \E o \in MatchOutcomes : MatchDone(t, o)
  \/ \E t \in tasks : \E o \in SpeciesOutcomes : SpeciesDone(t, o)
  \/ \E t \in tasks : WikiDone(t)
  \/ \E n \in TimedRanks : Get(n)
  \/ \E f \in fetches : \E o \in Outcomes : Complete(f, o)
  \/ Tick

\* the timer of fetchWithTimeout fires for a request in flight
TimerFires == \E f \in fetches : Complete(f, "timeout")

SpecTimeout ==
  /\ CacheSpecInit
  /\ [][TimeoutNext]_vars
  /\ WF_vars(Tick)
  /\ WF_vars(TimerFires)

\* every rank lookup that starts a request completes
RankLookupCompletes ==
  \A i \in 1..MaxFetches :
    (\E f \in fetches : f.id = i) ~> (\A f \in fetches : f.id # i)

\* C17: every call runs under a timeout, so every call that is started
\* completes, even when the provider never responds: the rank lookups and
\* the taxonomy generations alike
C17_EveryCallCompletes ==
  /\ \A i \in 1..MaxFetches :
       (\E f \in fetches : f.id = i) ~> (\A f \in fetches : f.id # i)
  /\ \A i \in 1..MaxSearches :
       (\E t \in tasks : t.id = i) ~> (\A t \in tasks : t.id # i)

\* the step reopens the closed panel of request f's key by hover, inside the
\* throttle window of the request that opening it first had started
Reopened(f) ==
  /\ f.by = "hover"
  /\ ~openRanks[f.key]
  /\ now - LastFetch(rankLastFetchTime, f.key) < RANK_FETCH_THROTTLE_MS

\* C18: closing a rank panel and reopening it within the throttle window
\* starts no second request, whether the request of the first opening has
\* completed (the key has an entry) or is still in flight
C18_ReopenInWindowStartsNoRequest ==
  [][\A f \in fetches' \ fetches :
       Reopened(f) =>
         /\ ~MapHas(rankCache, f.key)
         /\ \A g \in fetches : ~(g.key = f.key /\ g.by = "hover")]_vars

\* reopening a panel whose key has an entry starts no request
ReopenWithEntryStartsNoRequest ==
  [][\A f \in fetches' \ fetches :
       f.by = "hover" => ~MapHas(rankCache, f.key)]_vars

\* C19: a lookup that ended in not-found is not looked up again by itself:
\* while the panel shows the not-found outcome of the committed query, no
\* step that keeps the query sends a request for it
C19_NotFoundNotRetried ==
  [][(fastaError = "No sequence found." /\ searchQuery' = searchQuery) =>
       fastaCall' = NoLookup]_vars

\* the session cache holds sequences only: no outcome is cached for a query
\* whose lookup ended in not-found
NotFoundLeavesNoEntry ==
  [][fastaError' = "No sequence found." =>
       fastaCache' = fastaCache /\ ~MapHas(fastaCache', searchQuery)]_vars

(***************************************************************************)
(* The taxonomy lookup alone: generations started with the Generate        *)
(* button, which is disabled while one is running.                         *)
(***************************************************************************)
TaxonomyNext ==
  \/ ChartButton
  \/ \E t \in tasks : \E o \in MatchOutcomes : MatchDone(t, o)
  \/ \E t \in tasks : \E o \in SpeciesOutcomes : SpeciesDone(t, o)
  \/ \E t \in tasks : WikiDone(t)

TaxonomySpecInit ==
  /\ route = "taxonomy"
  /\ \E v \in SearchInputs :
       \E a \in -1..(MaxChoices - 1) :
         /\ a < Len(ChartSuggest(v))
         /\ chart = Typed(v, ChartSuggest(v), a)
  /\ page = AutoInit
  /\ widget = WidgetInit
  /\ CacheInit
  /\ SearchInit
  /\ HierarchyIdle
  /\ SiteIdle

SpecTaxonomy == TaxonomySpecInit /\ [][TaxonomyNext]_vars

C21_NonSuccessFailsLookup ==
  [][lastDone'.species \in {"httpError", "badJson"} =>
       /\ lastDone'.taxonomy = "failed"
       /\ lastDone'.error # "none"
       /\ \A t \in tasks' : t \in tasks]_vars

\* a malformed payload or a rejected request does end the lookup with its error
UnreadableResponseFailsLookup ==
  [][(lastDone'.species \in {"networkError", "badJson"}
        \/ lastDone'.match \in {"networkError", "badJson"}) =>
       /\ lastDone'.taxonomy = "failed"
       /\ lastDone'.error \in {"TypeError", "SyntaxError"}
       /\ \A t \in tasks' : t \in tasks]_vars

\* C22: the encyclopedia adapter tells a missing article from a failure: what
\* it resolves with for a missing article (404) is not what it resolves with
\* for another non-success status
C22_MissingArticleIsNotAFailure ==
  [][lastSummary'.outcome = "missing" =>
       lastSummary'.result # SummaryResult(nextSummary, "httpError")]_vars

\* only an ok response resolves with a summary
OnlyOkResolvesWithSummary ==
  [][lastSummary'.outcome \in SummaryOutcomes \ {"ok"} =>
       lastSummary'.result = NoSummary]_vars

\* C23: once the input has stopped changing and its debounce timer has run
\* out (the debounced value is the input value), the suggestions are the ones
\* computed from the latest input value
C23_SuggestionsOfLatestValue ==
  /\ (route = "taxonomy" /\ chart.debouncedInput = chart.inputValue) =>
       chart.suggestions = ChartSuggest(chart.inputValue)
  /\ (route = "search" /\ page.debouncedInput = page.inputValue) =>
       page.suggestions = PageSuggest(page.inputValue)

\* an evaluation is made for the input value of the moment the timer fires:
\* a value that was superseded while its timer ran is never evaluated
SupersededValueNeverEvaluated ==
  [][/\ chart'.debouncedInput # chart.debouncedInput =>
          /\ chart'.debouncedInput = chart.inputValue
          /\ chart'.suggestions = ChartSuggest(chart.inputValue)
     /\ page'.debouncedInput # page.debouncedInput =>
          /\ page'.debouncedInput = page.inputValue
          /\ page'.suggestions = PageSuggest(page.inputValue)
     /\ widget'.searchTerm # widget.searchTerm =>
          /\ widget'.searchTerm = widget.typed
          /\ widget'.suggestions = WidgetSuggest(widget.typed)]_vars

\* C24: the result of a request that was in flight when its key was
\* refreshed never ends up as the entry of the key: when such a request
\* completes and leaves no request for the key in flight, the entry is not
\* its result
C24_EntryNotOlderThanRefresh ==
  [][\A f \in fetches \ fetches' :
       (f.id \in preRefresh /\ \A g \in fetches' : g.key # f.key) =>
         rankCache'[f.key].id # f.id]_vars

\* a refresh that finds no request of its key in flight leaves its own
\* result as the entry
RefreshAloneLeavesItsResult ==
  [][\A f \in fetches \ fetches' :
       (f.by = "refresh" /\ \A g \in fetches : g.key = f.key => g.id >= f.id) =>
         rankCache'[f.key].id = f.id]_vars

\* C25: the loading flag of a key is true whenever a request for the key that
\* was started by hover (or toggle) or by refresh is in flight
C25_LoadingWhileInFlight ==
  \A f \in fetches : f.by \in {"hover", "refresh"} => rankLoading[f.key]

\* the loading flag of a key is false once no request for the key is in flight
LoadingClearedAtRest ==
  \A k \in Keys : rankLoading[k] => \E f \in fetches : f.key = k

\* C26: in the species search page the FASTA loading flag is true whenever a
\* sequence lookup that has not been aborted is in flight
C26_FastaLoadingWhileInFlight == fastaCall # NoLookup => fastaLoading

\* the start of a lookup clears the sequence and the error of the panel, and
\* nothing but the response of that lookup sets them: an aborted lookup
\* leaves them alone
AbortedLookupLeavesPanel ==
  fastaCall # NoLookup => fasta = "null" /\ fastaError = "null"

----------------------------------------------------------------------------
(***************************************************************************)
(* Keyboard and pointer handling of the suggestion lists.  Enter in the     *)
(* inputs of the two pages starts a search: ChartEnter and PageEnter.      *)
(***************************************************************************)
\* suggestions[i] of JavaScript for an index outside the list
undefined == <<"undefined">>

\* Math.min and Math.max of two integers
MathMin(a, b) == IF a <= b THEN a ELSE b

MathMax(a, b) == IF a >= b THEN a ELSE b

\* a step of the suggestion list alone
KeyQuiet ==
  /\ UNCHANGED cacheVars
  /\ SearchQuiet

\* handleInputKeyDown of TaxonomyChart, ArrowDown
ChartArrowDown ==
  /\ route = "taxonomy"
  /\ chart.showSuggestions /\ Len(chart.suggestions) > 0
  /\ chart' = [chart EXCEPT !.activeSuggestionIndex =
                 MathMin(chart.activeSuggestionIndex + 1, Len(chart.suggestions) - 1)]
  /\ UNCHANGED <<route, page, widget>>
  /\ KeyQuiet

\* handleInputKeyDown of TaxonomyChart, ArrowUp
ChartArrowUp ==
  /\ route = "taxonomy"
  /\ chart.showSuggestions /\ Len(chart.suggestions) > 0
  /\ chart' = [chart EXCEPT !.activeSuggestionIndex =
                 MathMax(chart.activeSuggestionIndex - 1, -1)]
  /\ UNCHANGED <<route, page, widget>>
  /\ KeyQuiet

\* handleInputKeyDown of TaxonomyChart, Escape
ChartEscape ==
  /\ route = "taxonomy"
  /\ chart.showSuggestions /\ Len(chart.suggestions) > 0
  /\ chart' = [chart EXCEPT !.showSuggestions = FALSE,
                            !.activeSuggestionIndex = -1]
  /\ UNCHANGED <<route, page, widget>>
  /\ KeyQuiet

\* onMouseEnter of a rendered suggestion of TaxonomyChart
ChartHover(i) ==
  /\ route = "taxonomy"
  /\ chart.showSuggestions /\ Len(chart.suggestions) > 0
  /\ i \in 0..(Len(chart.suggestions) - 1)
  /\ chart' = [chart EXCEPT !.activeSuggestionIndex = i]
  /\ UNCHANGED <<route, page, widget>>
  /\ KeyQuiet

\* handleInputKeyDown of the species search page, ArrowDown
PageArrowDown ==
  /\ route = "search"
  /\ page.showSuggestions /\ Len(page.suggestions) > 0
  /\ page' = [page EXCEPT !.activeSuggestionIndex =
                MathMin(page.activeSuggestionIndex + 1, Len(page.suggestions) - 1)]
  /\ UNCHANGED <<route, chart, widget>>
  /\ KeyQuiet

\* handleInputKeyDown of the species search page, ArrowUp
PageArrowUp ==
  /\ route = "search"
  /\ page.showSuggestions /\ Len(page.suggestions) > 0
  /\ page' = [page EXCEPT !.activeSuggestionIndex =
                MathMax(page.activeSuggestionIndex - 1, -1)]
  /\ UNCHANGED <<route, chart, widget>>
  /\ KeyQuiet

\* handleInputKeyDown of the species search page, Escape
PageEscape ==
  /\ route = "search"
  /\ page.showSuggestions /\ Len(page.suggestions) > 0
  /\ page' = [page EXCEPT !.showSuggestions = FALSE,
                          !.activeSuggestionIndex = -1]
  /\ UNCHANGED <<route, chart, widget>>
  /\ KeyQuiet

\* onMouseEnter of a rendered suggestion of the species search page
PageHover(idx) ==
  /\ route = "search"
  /\ page.showSuggestions /\ Len(page.suggestions) > 0
  /\ idx \in 0..(Len(page.suggestions) - 1)
  /\ page' = [page EXCEPT !.activeSuggestionIndex = idx]
  /\ UNCHANGED <<route, chart, widget>>
  /\ KeyQuiet

\* handleKeyDown of the widget, ArrowDown: no test of the list
WidgetArrowDown ==
  /\ route = "widget"
  /\ widget' = [widget EXCEPT !.suggestionIndex =
                  MathMin(widget.suggestionIndex + 1, Len(widget.suggestions) - 1)]
  /\ UNCHANGED <<route, chart, page>>
  /\ KeyQuiet

\* handleKeyDown of the widget, ArrowUp
WidgetArrowUp ==
  /\ route = "widget"
  /\ widget' = [widget EXCEPT !.suggestionIndex =
                  MathMax(widget.suggestionIndex - 1, -1)]
  /\ UNCHANGED <<route, chart, page>>
  /\ KeyQuiet

\* handleKeyDown of the widget, Escape
WidgetEscape ==
  /\ route = "widget"
  /\ widget' = [widget EXCEPT !.showSuggestions = FALSE, !.suggestionIndex = -1]
  /\ UNCHANGED <<route, chart, page>>
  /\ KeyQuiet

\* handleKeyDown of the widget, Enter with suggestionIndex > -1:
\* handleSuggestionClick(suggestions[suggestionIndex]), whose handleSearch
\* navigates to the Home route
WidgetEnter ==
  LET at == widget.suggestionIndex + 1
      suggestion == IF at \in DOMAIN widget.suggestions
                      THEN widget.suggestions[at] ELSE undefined
  IN  /\ route = "widget"
      /\ widget.suggestionIndex > -1
      /\ widget' = [widget EXCEPT !.searchTerm = suggestion,
                                  !.suggestions = <<>>,
                                  !.showSuggestions = FALSE,
                                  !.suggestionIndex = -1]
      /\ route' = "home"
      /\ lastEntry' = [path |-> "enter", query |-> suggestion]
      /\ toast' = "none"
      /\ sent' = {}
      /\ lastDone' = NoDone
      /\ UNCHANGED <<searchQuery, loading, taxonomyData, animalData, tasks,
                     nextTask>>
      /\ UNCHANGED <<chart, page>>
      /\ UNCHANGED cacheVars
      /\ UNCHANGED fastaVars
      /\ UNCHANGED hierarchyVars
      /\ UNCHANGED siteVars

KeysNext ==
  \/ ChartArrowDown
  \/ ChartArrowUp
  \/ ChartEscape
  \/ \E i \in 0..(SUGGESTION_LIMIT - 1) : ChartHover(i)
  \/ PageArrowDown
  \/ PageArrowUp
  \/ PageEscape
  \/ \E idx \in 0..(SUGGESTION_LIMIT - 1) : PageHover(idx)
  \/ WidgetArrowDown
  \/ WidgetArrowUp
  \/ WidgetEscape
  \/ WidgetEnter

SpecKeys == SuggestSpecInit /\ [][SuggestNext \/ KeysNext]_vars

\* an index that is -1 or a position of the list (positions count from 0)
ValidIndex(index, list) == index = -1 \/ (0 <= index /\ index < Len(list))

\* C27: in every search input the active suggestion index is -1 or a valid
\* index of the current suggestion list
C27_ActiveIndexValid ==
  /\ ValidIndex(chart.activeSuggestionIndex, chart.suggestions)
  /\ ValidIndex(page.activeSuggestionIndex, page.suggestions)
  /\ ValidIndex(widget.suggestionIndex, widget.suggestions)

\* Enter on an active suggestion of the widget selects a name of the list
WidgetEnterSelectsListedName ==
  [][WidgetEnter => lastEntry'.query # undefined]_vars

\* in TaxonomyChart the active index is -1 or a valid index of the list
ChartIndexValid ==
  ValidIndex(chart.activeSuggestionIndex, chart.suggestions)

\* whenever the species search page shows its list, the active index is -1
\* or a valid index of the list
PageIndexValidWhenListed ==
  (page.showSuggestions /\ Len(page.suggestions) > 0) =>
    ValidIndex(page.activeSuggestionIndex, page.suggestions)

\* every entry of the Map `old` is an entry of the Map `new`, with its value
Keeps(old, new) == \A k \in DOMAIN old : MapHas(new, k) /\ new[k] = old[k]

\* C28: fastaCache and WIKI_CACHE are write-once per key: no step changes or
\* removes a stored value
C28_StoredValueNeverChanged ==
  [][Keeps(fastaCache, fastaCache') /\ Keeps(WIKI_CACHE, WIKI_CACHE')]_vars

\* WIKI_CACHE is written by an ok response only
OnlyOkSummaryStored ==
  [][WIKI_CACHE' # WIKI_CACHE => lastSummary'.outcome = "ok"]_vars

\* a card mounted when WIKI_CACHE holds its key shows the stored summary and
\* sends no request
StoredSummaryAnsweredFromCache ==
  [][\A n \in Cards :
       (MountCard(n) /\ MapHas(WIKI_CACHE, toLowerCase(n))) =>
         /\ summaryCalls' = summaryCalls
         /\ cardWiki'[n] = WIKI_CACHE[toLowerCase(n)]]_vars

\* a sequence lookup is in flight only for a query that fastaCache does not
\* hold, so fastaCache.set never meets a stored key
FastaLookupOnlyOfUnstoredQuery ==
  fastaCall # NoLookup => ~MapHas(fastaCache, fastaCall.q)

\* fastaCache is written by an ok efetch response only, and no step changes
\* or removes a stored sequence
FastaCacheWriteOnce ==
  [][/\ Keeps(fastaCache, fastaCache')
     /\ fastaCache' # fastaCache => fastaCall.pc = "efetch" /\ fasta' = "fastaText"]_vars

\* a search for a query that fastaCache holds sends no request to NCBI
StoredSequenceAnsweredFromCache ==
  [][(searchQuery' # searchQuery /\ MapHas(fastaCache, trim(searchQuery'))) =>
       /\ "ncbi" \notin sent'
       /\ fastaCall' = NoLookup
       /\ fasta' = fastaCache[trim(searchQuery')]]_vars

----------------------------------------------------------------------------
(***************************************************************************)
(* The newsletter form of Layout, which stays mounted on every route.      *)
(* A timer is a record with the ms left until it fires.                    *)
(***************************************************************************)
\* values of the email input
Emails == {"", "reader@example.org"}

\* the simulated API call
SEND_MS == 700

\* delay of the return to 'idle'
RESET_MS == 2000

NewsletterQuiet ==
  UNCHANGED <<suggestVars, cacheVars, searchVars, fastaVars, hierarchyVars,
              redListVars>>

\* the delay a timer was set with
Delay(kind) == IF kind = "send" THEN SEND_MS ELSE RESET_MS

\* timers that are due
Due == {t \in newsTimers : t.left = 0}

\* a due timer waits for the due timers set before it with a delay that is
\* not longer than its own
MayFire(t) ==
  /\ t \in Due
  /\ \A u \in Due : u.id < t.id => Delay(u.kind) > Delay(t.kind)

\* submissions awaiting the simulated API call
InFlight == {t \in newsTimers : t.kind = "send"}

\* onChange of the email input
NewsletterInput(v) ==
  /\ v \in Emails
  /\ v # newsletterEmail
  /\ newsletterEmail' = v
  /\ lastSubmit' = "none"
  /\ UNCHANGED <<newsletterStatus, newsTimers, nextTimer>>
  /\ NewsletterQuiet

\* submitNewsletter up to its await
submitNewsletter ==
  /\ IF newsletterEmail = "" \/ newsletterStatus = "sending"
       THEN /\ lastSubmit' = "returned"
            /\ UNCHANGED <<newsletterStatus, newsTimers, nextTimer>>
       ELSE /\ nextTimer <= MaxTimers
            /\ newsletterStatus' = "sending"
            /\ newsTimers' = newsTimers \cup
                 {[id |-> nextTimer, kind |-> "send", left |-> SEND_MS]}
            /\ nextTimer' = nextTimer + 1
            /\ lastSubmit' = "started"
  /\ UNCHANGED newsletterEmail
  /\ NewsletterQuiet

\* submitNewsletter after its await: the 700 ms timer t has fired
NewsletterSent(t) ==
  /\ MayFire(t) /\ t.kind = "send"
  /\ newsletterStatus' = "sent"
  /\ newsletterEmail' = ""
  /\ newsTimers' = (newsTimers \ {t}) \cup
       {[id |-> nextTimer, kind |-> "reset", left |-> RESET_MS]}
  /\ nextTimer' = nextTimer + 1
  /\ lastSubmit' = "none"
  /\ NewsletterQuiet

\* the 2000 ms timer t fires: setNewsletterStatus('idle')
NewsletterReset(t) ==
  /\ MayFire(t) /\ t.kind = "reset"
  /\ newsletterStatus' = "idle"
  /\ newsTimers' = newsTimers \ {t}
  /\ lastSubmit' = "none"
  /\ UNCHANGED <<newsletterEmail, nextTimer>>
  /\ NewsletterQuiet

\* time passes up to the next timer that is due, NewsTickMs at most
NewsletterTick ==
  /\ newsTimers # {}
  /\ Due = {}
  /\ LET dt == MathMin(NewsTickMs, SetMin({t.left : t \in newsTimers}))
     IN  newsTimers' = {[t EXCEPT !.left = t.left - dt] : t \in newsTimers}
  /\ lastSubmit' = "none"
  /\ UNCHANGED <<newsletterEmail, newsletterStatus, nextTimer>>
  /\ NewsletterQuiet

NewsletterNext ==
  \/ \E v \in Emails : NewsletterInput(v)
  \/ submitNewsletter
  \/ \E t \in newsTimers : NewsletterSent(t)
  \/ \E t \in newsTimers : NewsletterReset(t)
  \/ NewsletterTick

NewsletterSpecInit ==
  /\ route = "home"
  /\ chart = AutoInit
  /\ page = AutoInit
  /\ widget = WidgetInit
  /\ CacheInit
  /\ SearchInit
  /\ HierarchyIdle
  /\ SiteIdle

SpecNewsletter == NewsletterSpecInit /\ [][NewsletterNext]_vars

\* C29: the newsletter status is 'sending' for the whole time a submission
\* is in flight
C29_SendingWhileInFlight == InFlight # {} => newsletterStatus = "sending"

\* at most one submission is in flight at any time
AtMostOneSubmissionInFlight == Cardinality(InFlight) <= 1

\* the status moves only idle -> sending -> sent -> idle
StatusMovesInOrder ==
  [][newsletterStatus' # newsletterStatus =>
       <<newsletterStatus, newsletterStatus'>> \in
         {<<"idle", "sending">>, <<"sending", "sent">>, <<"sending", "error">>,
          <<"sent", "idle">>, <<"error", "idle">>}]_vars

\* a submit while the status is 'sending' or with an empty email changes
\* nothing
RefusedSubmitChangesNothing ==
  [][(submitNewsletter /\ (newsletterEmail = "" \/ newsletterStatus = "sending"))
       => UNCHANGED <<newsletterEmail, newsletterStatus, newsTimers>>]_vars

\* a submission is accepted only with an email, and leaves the status 'sending'
AcceptedSubmitStartsSending ==
  [][lastSubmit' = "started" =>
       newsletterEmail # "" /\ newsletterStatus' = "sending"]_vars

====
